---- MODULE Spec2Model ----
(***************************************************************************)
(* A model of screencrash-core: the Performance engine (performance.py),   *)
(* the operator command routing (peers/ui.py, main.py) and the component   *)
(* peer registry (peers/component.py).                                     *)
(*                                                                         *)
(* Python strings that the code only compares as a whole (node IDs, action *)
(* IDs, component IDs) are TLA+ strings.  Strings the code takes apart     *)
(* (event patterns, event names, parameter values) are sequences of        *)
(* one-character strings, so that "in" and split("|") are computed.        *)
(***************************************************************************)
EXTENDS Integers, Sequences, FiniteSets, TLC

VARIABLES
    opus_file,   \* the opus file main loads (OPUS); the Opus built from it is read-only
    history,     \* Performance.history
    op,          \* the last call made on the engine, with its arguments and outcome
    pre,         \* Performance.history when that call began
    emitted,     \* the notifications that call emitted, in emission order
    ui,          \* UI._history, and what changed_history found there when it was last entered
    websockets,  \* ComponentPeer._websockets of one category
    infos,       \* ComponentPeer._infos of that category: component ID -> socket
    conn,        \* per connection: the position of its handle_socket task and its local component_id
    peer_op,     \* the last step of a handle_socket task
    peer_emitted,\* the notifications that step emitted, in emission order
    peer_sent,   \* the messages that step sent, in sending order, each with its connection
    sync_assets, \* ComponentPeer._sync_assets
    active_achievement_requests, \* InventoryPeer._active_achievement_requests
    thread,      \* the thread send_command_to started, its position and its local websocket
    components,  \* Core._components: the connection list of each category's registry
    client,      \* per connection of the core: "new", its client type, or "closed"
    core_op,     \* the last operation of the core
    core_trace,  \* what that operation did, in order: handler calls, sends, prints
    m_expected,  \* _matches_event_string: argument expected_value
    m_value,     \* _matches_event_string: argument value
    m_result,    \* _matches_event_string: the returned boolean
    m_pc,        \* "call" before _matches_event_string has run, "return" after
    load_in,     \* a function called on its own (loading, startup, matching), and its arguments
    load_out,    \* what that call printed, returned or raised; "none" before it has run
    ui_websockets, \* UI._websockets
    task,        \* per connection: what its handle_socket task has still to run of the
                 \* message it is handling; empty while it waits for a message
    storages_random_cmds \* MediaPeer._storages_random_cmds

perf_vars == <<opus_file, history, op, pre, emitted, ui>>
peer_vars == <<websockets, infos, conn, peer_op, peer_emitted, peer_sent, sync_assets, thread,
               active_achievement_requests>>
match_vars == <<m_expected, m_value, m_result, m_pc>>
loop_vars == <<ui_websockets, task, storages_random_cmds>>
core_vars == <<components, client, core_op, core_trace>>
load_vars == <<load_in, load_out>>
vars == <<opus_file, history, op, pre, emitted, ui, websockets, infos, conn, peer_op, peer_emitted,
          peer_sent, sync_assets, thread, active_achievement_requests,
          m_expected, m_value, m_result, m_pc,
          components, client, core_op, core_trace, load_in, load_out,
          ui_websockets, task, storages_random_cmds>>

----------------------------------------------------------------------------
(* Bounds of the model *)

\* calls that would append are not made once history has this length
MaxHistory == 4
\* choose_path is tried with every index in -MaxIndex .. MaxIndex
MaxIndex == 2
\* patterns and values given to _matches_event_string have at most this many characters
MaxStrLen == 3
\* the connections one category's registry accepts over its lifetime
NumConns == 3

----------------------------------------------------------------------------
(* Python values *)

\* None, where a string is expected: no sequence of one-character strings equals it
NoneVal == <<"None">>

Last(s) == s[Len(s)]

\* the members of list l
Members(l) == {l[i] : i \in 1..Len(l)}

\* the string "any"
AnyStr == <<"a", "n", "y">>

----------------------------------------------------------------------------
(* The Opus data model: opus.py, the dataclasses *)

\* Node.next is a node ID (str), a list of NodeChoice, or None
NextStr(n) == [kind |-> "str", node |-> n, choices |-> <<>>]
NextList(cs) == [kind |-> "list", node |-> "", choices |-> cs]
NextNone == [kind |-> "none", node |-> "", choices |-> <<>>]

NodeChoice(n, acts) == [node |-> n, actions |-> acts]
Node(nxt, acts) == [next |-> nxt, actions |-> acts]

\* one parameter rule of an EventTrigger, as performance.py reads it
ParamRule(n, e, inv) == [name |-> n, expression |-> e, inverted |-> inv]
EventTrigger(t, e, ps, acts) == [target |-> t, event |-> e, params |-> ps, actions |-> acts]

\* the event triggers of the opuses below
Triggers ==
    << EventTrigger("media", AnyStr, <<>>, <<"t1">>),
       EventTrigger("media", <<"e", "|", "f">>,
                    <<ParamRule("p", <<"x", "|", "y">>, FALSE)>>, <<"t2", "t3">>),
       EventTrigger("inventory", <<"e">>,
                    <<ParamRule("p", <<"x">>, TRUE), ParamRule("q", AnyStr, FALSE)>>,
                    <<"t4", "t4">>),
       EventTrigger("media", <<"g">>, <<ParamRule("p", AnyStr, TRUE)>>, <<"t5">>) >>

\* the scenario opus: 11 -> 160 -> 1126 -> 11, every node linear
LinearOpus ==
    [ nodes |-> ( "11"   :> Node(NextStr("160"), <<"a1", "a2">>)
               @@ "160"  :> Node(NextStr("1126"), <<>>)
               @@ "1126" :> Node(NextStr("11"), <<"a2", "a2">>) ),
      start_node |-> "11",
      event_triggers |-> Triggers ]

\* an opus with a choice point, a cycle back to it and a node without successor
BranchOpus ==
    [ nodes |-> ( "s"   :> Node(NextList(<<NodeChoice("l", <<"c1">>),
                                           NodeChoice("r", <<"c2", "c1">>)>>),
                                <<"a1", "a2">>)
               @@ "l"   :> Node(NextStr("s"), <<"a3">>)
               @@ "r"   :> Node(NextNone, <<"a1">>) ),
      start_node |-> "s",
      event_triggers |-> Triggers ]

\* an opus that validate_references reports but, with exit_on_failure false, lets run:
\* node "d" refers to a node that is not declared
DanglingOpus ==
    [ nodes |-> ( "d" :> Node(NextStr("ghost"), <<"a1">>) ),
      start_node |-> "d",
      event_triggers |-> Triggers ]

\* an opus whose nodes and choices list actions of the action table: a linear
\* node, a choice point, and a node with a composite that cannot be run through
ShowOpus ==
    [ nodes |-> ( "1" :> Node(NextStr("2"), <<"play", "add_item", "door_1">>)
               @@ "2" :> Node(NextList(<<NodeChoice("1", <<"create">>),
                                         NodeChoice("3", <<"add_item", "play">>)>>),
                              <<"play_no_entity", "add_item">>)
               @@ "3" :> Node(NextStr("1"), <<"broken", "play">>) ),
      start_node |-> "1",
      event_triggers |-> Triggers ]

OpusFiles == {"linear.yaml", "branch.yaml", "dangling.yaml"}

\* load_opus: the Opus of the file, shared read-only by Performance and the UI
opus ==
    CASE opus_file = "linear.yaml" -> LinearOpus
      [] opus_file = "branch.yaml" -> BranchOpus
      [] opus_file = "dangling.yaml" -> DanglingOpus
      [] opus_file = "show.yaml" -> ShowOpus
      \* the opus that load_opus has handed to validate_references
      [] opus_file = "loaded.yaml" ->
             [ nodes |-> load_in.opus.nodes, start_node |-> load_in.opus.start_node,
               event_triggers |-> Triggers ]

----------------------------------------------------------------------------
(* EventEmitter.emit as seen from outside: a notification, its argument, and *)
(* Performance.history as a listener finds it while the notification runs  *)

RunActionEvent(h, action_id) == [name |-> "run-action", arg |-> <<action_id>>, seen |-> h]
HistoryChangedEvent(h) == [name |-> "history-changed", arg |-> h, seen |-> h]

\* for action_id in actions: self.emit("run-action", action_id)
EmitRunActions(h, actions) == [i \in 1..Len(actions) |-> RunActionEvent(h, actions[i])]

\* what a call leaves behind: the history, the notifications, the exception it raised
Outcome(h, evs, exc) == [history |-> h, events |-> evs, raised |-> exc]

----------------------------------------------------------------------------
(* Performance: performance.py *)

\* "|" in expected_value
Contains(s, c) == \E i \in 1..Len(s) : s[i] = c

\* value in alternatives
InList(v, l) == \E i \in 1..Len(l) : l[i] = v

\* str.split(sep): the pieces between the occurrences of sep, left to right
RECURSIVE split(_, _)
split(s, sep) ==
    IF ~Contains(s, sep) THEN <<s>>
    ELSE LET k == CHOOSE i \in 1..Len(s) : s[i] = sep /\ \A j \in 1..(i - 1) : s[j] # sep
         IN <<SubSeq(s, 1, k - 1)>> \o split(SubSeq(s, k + 1, Len(s)), sep)

\* _matches_event_string answering True for "any" without looking at the value
_matches_event_string_any_accepts_none(expected_value, value) ==
    IF expected_value = AnyStr THEN TRUE
    ELSE IF Contains(expected_value, "|") THEN InList(value, split(expected_value, "|"))
    ELSE value = expected_value

_matches_event_string(expected_value, value) ==
    IF expected_value = AnyStr THEN value # NoneVal
    ELSE IF Contains(expected_value, "|") THEN InList(value, split(expected_value, "|"))
    ELSE value = expected_value

\* the loop over event_trigger.params, from rule i on: the first failing rule returns False
RECURSIVE _matches_event_params(_, _, _)
_matches_event_params(rules, i, params) ==
    IF i > Len(rules) THEN TRUE
    ELSE LET param == rules[i]
             expected_result == IF param.inverted THEN FALSE ELSE TRUE
         IN IF param.name \notin DOMAIN params THEN FALSE
            ELSE IF _matches_event_string(param.expression, params[param.name]) # expected_result
                 THEN FALSE
                 ELSE _matches_event_params(rules, i + 1, params)

\* _matches_event_trigger without the comparison of the trigger's target
_matches_event_trigger_any_target(event_trigger, component_type, event, params) ==
    IF ~_matches_event_string(event_trigger.event, event) THEN FALSE
    ELSE _matches_event_params(event_trigger.params, 1, params)

_matches_event_trigger(event_trigger, component_type, event, params) ==
    IF event_trigger.target # component_type THEN FALSE
    ELSE IF ~_matches_event_string(event_trigger.event, event) THEN FALSE
    ELSE _matches_event_params(event_trigger.params, 1, params)

\* the loop over self._event_triggers, from trigger i on
RECURSIVE _fire_event_triggers(_, _, _, _, _)
_fire_event_triggers(h, i, component_type, event, params) ==
    IF i > Len(opus.event_triggers) THEN <<>>
    ELSE LET event_trigger == opus.event_triggers[i]
             fired == IF _matches_event_trigger(event_trigger, component_type, event, params)
                      THEN EmitRunActions(h, event_trigger.actions)
                      ELSE <<>>
         IN fired \o _fire_event_triggers(h, i + 1, component_type, event, params)

on_component_event(h, component_type, event, params) ==
    Outcome(h, _fire_event_triggers(h, 1, component_type, event, params), "none")

run_actions(h) ==
    IF Last(h) \notin DOMAIN opus.nodes THEN Outcome(h, <<>>, "KeyError")
    ELSE LET active_node == opus.nodes[Last(h)]
         IN Outcome(h, EmitRunActions(h, active_node.actions), "none")

\* next_node appending the current node's own ID instead of its successor
next_node_appends_current(h, do_run_actions) ==
    IF Last(h) \notin DOMAIN opus.nodes THEN Outcome(h, <<>>, "KeyError")
    ELSE LET current_node == opus.nodes[Last(h)]
         IN IF current_node.next.kind = "str"
            THEN LET ran == IF do_run_actions THEN run_actions(h).events ELSE <<>>
                     h2 == Append(h, Last(h))
                 IN Outcome(h2, ran \o <<HistoryChangedEvent(h2)>>, "none")
            ELSE Outcome(h, <<>>, "none")

\* next_node moving on first and running the actions afterwards
next_node_actions_after_append(h, do_run_actions) ==
    IF Last(h) \notin DOMAIN opus.nodes THEN Outcome(h, <<>>, "KeyError")
    ELSE LET current_node == opus.nodes[Last(h)]
         IN IF current_node.next.kind = "str"
            THEN LET h2 == Append(h, current_node.next.node)
                     ran == IF do_run_actions
                            THEN EmitRunActions(h2, current_node.actions)
                            ELSE <<>>
                 IN Outcome(h2, ran \o <<HistoryChangedEvent(h2)>>, "none")
            ELSE Outcome(h, <<>>, "none")

\* next_node taking the first choice at a choice point
next_node_takes_first_choice(h, do_run_actions) ==
    IF Last(h) \notin DOMAIN opus.nodes THEN Outcome(h, <<>>, "KeyError")
    ELSE LET current_node == opus.nodes[Last(h)]
             ran == IF do_run_actions THEN run_actions(h).events ELSE <<>>
         IN IF current_node.next.kind = "str"
            THEN LET h2 == Append(h, current_node.next.node)
                 IN Outcome(h2, ran \o <<HistoryChangedEvent(h2)>>, "none")
            ELSE IF current_node.next.kind = "list"
            THEN LET h2 == Append(h, current_node.next.choices[1].node)
                 IN Outcome(h2, ran \o <<HistoryChangedEvent(h2)>>, "none")
            ELSE Outcome(h, <<>>, "none")

next_node(h, do_run_actions) ==
    IF Last(h) \notin DOMAIN opus.nodes THEN Outcome(h, <<>>, "KeyError")
    ELSE LET current_node == opus.nodes[Last(h)]
         IN IF current_node.next.kind = "str"
            THEN LET ran == IF do_run_actions THEN run_actions(h).events ELSE <<>>
                     next_node_id == current_node.next.node
                     h2 == Append(h, next_node_id)
                 IN Outcome(h2, ran \o <<HistoryChangedEvent(h2)>>, "none")
            ELSE Outcome(h, <<>>, "none")

\* prev_node guarded by len(self.history) > 0
prev_node_pops_last_entry(h) ==
    IF Len(h) > 0
    THEN LET h2 == SubSeq(h, 1, Len(h) - 1)
         IN Outcome(h2, <<HistoryChangedEvent(h2)>>, "none")
    ELSE Outcome(h, <<>>, "none")

prev_node(h) ==
    IF Len(h) > 1
    THEN LET h2 == SubSeq(h, 1, Len(h) - 1)
         IN Outcome(h2, <<HistoryChangedEvent(h2)>>, "none")
    ELSE Outcome(h, <<>>, "none")

\* choose_path without the choice_index < 0 test: a negative index counts from the end
choose_path_negative_index(h, choice_index, do_run_actions) ==
    IF Last(h) \notin DOMAIN opus.nodes THEN Outcome(h, <<>>, "KeyError")
    ELSE LET current_node == opus.nodes[Last(h)]
             n == Len(current_node.next.choices)
         IN IF current_node.next.kind = "str" THEN Outcome(h, <<>>, "none")
            ELSE IF current_node.next.kind = "none" THEN Outcome(h, <<>>, "TypeError")
            ELSE IF choice_index >= n THEN Outcome(h, <<>>, "none")
            ELSE IF choice_index < 0 - n THEN Outcome(h, <<>>, "IndexError")
            ELSE LET choice == IF choice_index < 0
                               THEN current_node.next.choices[n + choice_index + 1]
                               ELSE current_node.next.choices[choice_index + 1]
                     ran == IF do_run_actions
                            THEN EmitRunActions(h, current_node.actions)
                                 \o EmitRunActions(h, choice.actions)
                            ELSE <<>>
                     h2 == Append(h, choice.node)
                 IN Outcome(h2, ran \o <<HistoryChangedEvent(h2)>>, "none")

\* choose_path running the choice's actions before the node's
choose_path_choice_actions_first(h, choice_index, do_run_actions) ==
    IF Last(h) \notin DOMAIN opus.nodes THEN Outcome(h, <<>>, "KeyError")
    ELSE LET current_node == opus.nodes[Last(h)]
         IN IF current_node.next.kind = "str" THEN Outcome(h, <<>>, "none")
            ELSE IF current_node.next.kind = "none" THEN Outcome(h, <<>>, "TypeError")
            ELSE IF choice_index >= Len(current_node.next.choices) \/ choice_index < 0
                 THEN Outcome(h, <<>>, "none")
            ELSE LET choice == current_node.next.choices[choice_index + 1]
                     ran == IF do_run_actions
                            THEN EmitRunActions(h, choice.actions)
                                 \o EmitRunActions(h, current_node.actions)
                            ELSE <<>>
                     h2 == Append(h, choice.node)
                 IN Outcome(h2, ran \o <<HistoryChangedEvent(h2)>>, "none")

choose_path(h, choice_index, do_run_actions) ==
    IF Last(h) \notin DOMAIN opus.nodes THEN Outcome(h, <<>>, "KeyError")
    ELSE LET current_node == opus.nodes[Last(h)]
         IN IF current_node.next.kind = "str" THEN Outcome(h, <<>>, "none")
            \* len(None) raises TypeError
            ELSE IF current_node.next.kind = "none" THEN Outcome(h, <<>>, "TypeError")
            ELSE IF choice_index >= Len(current_node.next.choices) \/ choice_index < 0
                 THEN Outcome(h, <<>>, "none")
            ELSE LET choice == current_node.next.choices[choice_index + 1]
                     ran == IF do_run_actions
                            THEN EmitRunActions(h, current_node.actions)
                                 \o EmitRunActions(h, choice.actions)
                            ELSE <<>>
                     next_node_id == choice.node
                     h2 == Append(h, next_node_id)
                 IN Outcome(h2, ran \o <<HistoryChangedEvent(h2)>>, "none")

\* Performance.goto_node is registered as a listener by main.py but is not part of
\* performance.py: modelled from the specification (4.2)
goto_node(h, node_id) ==
    IF node_id \in DOMAIN opus.nodes
    THEN LET h2 == Append(h, node_id)
         IN Outcome(h2, <<HistoryChangedEvent(h2)>>, "none")
    ELSE Outcome(h, <<>>, "none")

----------------------------------------------------------------------------
(* The operator commands: UI.handle_socket emits, Core._setup_events routes *)

\* the listener table with goto-node registered to the wrong method
Listeners_goto_misrouted ==
    ( "next-node"   :> "next_node"
   @@ "prev-node"   :> "prev_node"
   @@ "goto-node"   :> "next_node"
   @@ "run-actions" :> "run_actions"
   @@ "choose-path" :> "choose_path" )

\* self._ui.add_event_listener(<message type>, self._performance.<method>)
Listeners ==
    ( "next-node"   :> "next_node"
   @@ "prev-node"   :> "prev_node"
   @@ "goto-node"   :> "goto_node"
   @@ "run-actions" :> "run_actions"
   @@ "choose-path" :> "choose_path" )

\* a call: the message type that caused it (or "none"), the method, its arguments,
\* and the exception it ended with
Call(msg, method) ==
    [ msg |-> msg, method |-> method, run_actions |-> FALSE, choice_index |-> 0,
      node |-> "", component_type |-> "", event |-> <<>>, params |-> <<>>,
      raised |-> "none" ]

Invoke(method, a, h) ==
    CASE method = "next_node"   -> next_node(h, a.run_actions)
      [] method = "prev_node"   -> prev_node(h)
      [] method = "goto_node"   -> goto_node(h, a.node)
      [] method = "run_actions" -> run_actions(h)
      [] method = "choose_path" -> choose_path(h, a.choice_index, a.run_actions)
      [] method = "on_component_event" ->
             on_component_event(h, a.component_type, a.event, a.params)

\* Python names hold references.  Performance.history names the one list object made
\* by Performance.__init__, which the engine appends to and pops from in place
PerformanceHistory == [object |-> "Performance.history"]

\* the items of the list a reference names, while Performance.history holds h; a
\* list object of its own carries its items
Items(ref, h) == IF ref = PerformanceHistory THEN h ELSE ref.items

\* UI.__init__: self._history = initial_history
UI(initial_history) == [_history |-> initial_history, found |-> <<>>]

\* UI.changed_history: self._history = history, entered while Performance.history
\* holds h
changed_history(u, history_ref, h) ==
    [_history |-> history_ref, found |-> Items(u._history, h)]

\* the listener main.py adds to "history-changed", run for the notifications of one
\* call; the engine passes self.history, the list object itself
RECURSIVE ui_listener(_, _, _)
ui_listener(u, events, i) ==
    IF i > Len(events) THEN u
    ELSE ui_listener(IF events[i].name = "history-changed"
                     THEN changed_history(u, PerformanceHistory, events[i].seen)
                     ELSE u,
                     events, i + 1)

\* the engine runs one call to completion; what it raises is caught by the caller
Perform(a) ==
    LET r == Invoke(a.method, a, history)
    IN /\ history' = r.history
       /\ emitted' = r.events
       /\ pre' = history
       /\ op' = [a EXCEPT !.raised = r.raised]
       /\ ui' = ui_listener(ui, r.events, 1)
       /\ UNCHANGED <<opus_file, peer_vars, match_vars, loop_vars, load_vars, core_vars>>

\* UI.handle_socket, one inbound message: self.emit(message_type, ...)
UIEmit(a) == Perform([a EXCEPT !.method = Listeners[a.msg]])

\* the node IDs an operator may send: the declared ones and one that is not declared
NodeInputs == DOMAIN opus.nodes \cup {"nowhere"}

UINextNode ==
    /\ Len(history) < MaxHistory
    /\ \E run \in BOOLEAN : UIEmit([Call("next-node", "") EXCEPT !.run_actions = run])

UIPrevNode == UIEmit(Call("prev-node", ""))

UIGotoNode ==
    /\ Len(history) < MaxHistory
    /\ \E n \in NodeInputs : UIEmit([Call("goto-node", "") EXCEPT !.node = n])

UIRunActions == UIEmit(Call("run-actions", ""))

UIChoosePath ==
    /\ Len(history) < MaxHistory
    /\ \E i \in (0 - MaxIndex)..MaxIndex, run \in BOOLEAN :
           UIEmit([Call("choose-path", "") EXCEPT !.choice_index = i, !.run_actions = run])

\* the events a component may report
ComponentTypes == {"media", "inventory"}
EventNames == {<<"e">>, <<"g">>}
ParamNames == {"p", "q"}
ParamValues == {<<"x">>, NoneVal}
ParamMaps == UNION {[names -> ParamValues] : names \in SUBSET ParamNames}

ComponentEvent ==
    \E t \in ComponentTypes, e \in EventNames, ps \in ParamMaps :
        Perform([Call("none", "on_component_event")
                    EXCEPT !.component_type = t, !.event = e, !.params = ps])

PerfInit ==
    /\ opus_file \in OpusFiles
    /\ history = <<opus.start_node>>
    /\ pre = <<opus.start_node>>
    /\ op = Call("none", "__init__")
    /\ emitted = <<>>
    /\ ui = UI(PerformanceHistory)

----------------------------------------------------------------------------
(* ComponentPeer: peers/component.py, one category's registry.  A connection *)
(* is one websocket object; handle_socket runs once for it, as one task of  *)
(* the event loop.  Between two awaits a task runs alone.                   *)

Conns == 1..NumConns

\* the component IDs peers report in component_info
ComponentIds == {"x", "y"}

\* component_id = None, the local variable of handle_socket before any component_info
NoId == "None"

InfoUpdatedEvent(component_id) == [name |-> "info-updated", arg |-> <<component_id>>]
DisconnectedEvent(component_id) == [name |-> "disconnected", arg |-> <<component_id>>]

\* list.remove(x): drops the first occurrence of x
RECURSIVE list_remove(_, _)
list_remove(l, x) ==
    IF l = <<>> THEN <<>>
    ELSE IF Head(l) = x THEN Tail(l)
    ELSE <<Head(l)>> \o list_remove(Tail(l), x)

\* del d[k], for k in d
dict_del(d, k) == [j \in DOMAIN d \ {k} |-> d[j]]

\* d[k] = v
dict_set(d, k, v) == [j \in DOMAIN d \cup {k} |-> IF j = k THEN v ELSE d[j]]

\* arg is the files of a file_checksums message, the data of a send_command call
PeerStep(step, c, component_id, exc) ==
    [step |-> step, conn |-> c, component_id |-> component_id, raised |-> exc, arg |-> <<>>]

\* one message sent on connection c
Out(c, msg) == [to |-> c, msg |-> msg]

\* the messages of the core to a component: json.dumps of a dict with these keys
Command(command) == [command |-> command, path |-> "", data |-> <<>>]
ReqComponentInfo == Command("req_component_info")
ReportChecksums == Command("report_checksums")
FileMsg(path, data) == [command |-> "file", path |-> path, data |-> data]

\* handle_socket up to the message loop: the connection is appended and asked for its info
handle_socket_accept(c) ==
    /\ conn[c].pc = "new"
    /\ websockets' = Append(websockets, c)
    /\ conn' = [conn EXCEPT ![c].pc = "open"]
    /\ peer_op' = PeerStep("accept", c, NoId, "none")
    /\ peer_emitted' = <<>>
    /\ peer_sent' = <<Out(c, ReqComponentInfo)>>
                     \o (IF sync_assets THEN <<Out(c, ReportChecksums)>> ELSE <<>>)
    /\ UNCHANGED <<infos, sync_assets, active_achievement_requests, thread,
                   perf_vars, match_vars, loop_vars, load_vars, core_vars>>

\* handle_socket when the peer has gone before the first send: websocket.send raises
\* ConnectionClosed outside the try block, after the connection was appended
handle_socket_handshake_fails(c) ==
    /\ conn[c].pc = "new"
    /\ websockets' = Append(websockets, c)
    /\ conn' = [conn EXCEPT ![c].pc = "failed"]
    /\ peer_op' = PeerStep("accept", c, NoId, "ConnectionClosed")
    /\ peer_emitted' = <<>>
    /\ peer_sent' = <<>>
    /\ UNCHANGED <<infos, sync_assets, active_achievement_requests, thread,
                   perf_vars, match_vars, loop_vars, load_vars, core_vars>>

\* the message loop, messageType component_info
handle_component_info(c, component_id) ==
    /\ conn[c].pc = "open"
    /\ infos' = dict_set(infos, component_id, c)
    /\ conn' = [conn EXCEPT ![c].component_id = component_id]
    /\ peer_op' = PeerStep("component_info", c, component_id, "none")
    /\ peer_emitted' = <<InfoUpdatedEvent(component_id)>>
    /\ peer_sent' = <<>>
    /\ UNCHANGED <<websockets, sync_assets, active_achievement_requests, thread,
                   perf_vars, match_vars, loop_vars, load_vars, core_vars>>

\* InventoryPeer.handle_component_disconnect, after the notification of the base
\* class: the requests of the component are dropped.  The other registries hold no
\* requests
handle_component_disconnect(requests, component_id) ==
    IF component_id \in DOMAIN requests THEN dict_del(requests, component_id) ELSE requests

\* the message loop ends (the peer closed, or ConnectionClosedError was caught) and
\* handle_socket runs its last lines; a KeyError of the del leaves the function
handle_socket_closed(c) ==
    LET component_id == conn[c].component_id
    IN /\ conn[c].pc = "open"
       /\ peer_sent' = <<>>
       /\ UNCHANGED <<sync_assets, thread, perf_vars, match_vars, loop_vars, load_vars, core_vars>>
       /\ IF component_id # NoId /\ component_id \notin DOMAIN infos
          THEN /\ conn' = [conn EXCEPT ![c].pc = "failed"]
               /\ peer_op' = PeerStep("closed", c, component_id, "KeyError")
               /\ peer_emitted' = <<>>
               /\ UNCHANGED <<websockets, infos, active_achievement_requests>>
          ELSE /\ infos' = IF component_id # NoId THEN dict_del(infos, component_id) ELSE infos
               /\ active_achievement_requests' =
                      IF component_id # NoId
                      THEN handle_component_disconnect(active_achievement_requests,
                                                       component_id)
                      ELSE active_achievement_requests
               /\ peer_emitted' = IF component_id # NoId
                                  THEN <<DisconnectedEvent(component_id)>>
                                  ELSE <<>>
               /\ websockets' = list_remove(websockets, c)
               /\ conn' = [conn EXCEPT ![c].pc = "closed"]
               /\ peer_op' = PeerStep("closed", c, component_id, "none")

\* Asset.data = None: no sequence of bytes equals it
NoData == <<-1>>

\* hashlib.md5(data).hexdigest(): a string that differs for different contents
md5(data) == <<"md5">> \o data

\* a checksum no held asset has
OtherChecksum == <<"other">>

\* an Asset as load_asset builds it: data and checksum are both None, or both set
Asset(path, data) ==
    [path |-> path, data |-> data,
     checksum |-> IF data = NoData THEN NoneVal ELSE md5(data)]

\* ComponentPeer._assets after _distribute_assets: two assets with content, an
\* asset whose file is empty and an asset whose content was not read
RegistryAssets ==
    <<Asset("a.png", <<104, 105>>), Asset("e.txt", <<>>),
      Asset("b.mp3", <<255, 0, 16, 32>>), Asset("http://u", NoData)>>

\* the truth value Python gives an Optional[bytes]: None and b"" are false
truthy(data) == data # NoData /\ data # <<>>

B64Alphabet ==
    <<"A", "B", "C", "D", "E", "F", "G", "H", "I", "J", "K", "L", "M",
      "N", "O", "P", "Q", "R", "S", "T", "U", "V", "W", "X", "Y", "Z",
      "a", "b", "c", "d", "e", "f", "g", "h", "i", "j", "k", "l", "m",
      "n", "o", "p", "q", "r", "s", "t", "u", "v", "w", "x", "y", "z",
      "0", "1", "2", "3", "4", "5", "6", "7", "8", "9", "+", "/">>

\* base64.b64encode(data).decode("utf-8"): three bytes become four characters,
\* a last group of one or two bytes is padded with "="
RECURSIVE b64encode(_)
b64encode(data) ==
    LET n == Len(data)
        b2 == IF n >= 2 THEN data[2] ELSE 0
        b3 == IF n >= 3 THEN data[3] ELSE 0
        v == data[1] * 65536 + b2 * 256 + b3
    IN IF n = 0 THEN <<>>
       ELSE <<B64Alphabet[(v \div 262144) + 1],
              B64Alphabet[((v \div 4096) % 64) + 1],
              IF n >= 2 THEN B64Alphabet[((v \div 64) % 64) + 1] ELSE "=",
              IF n >= 3 THEN B64Alphabet[(v % 64) + 1] ELSE "=">>
            \o (IF n > 3 THEN b64encode(SubSeq(data, 4, n)) ELSE <<>>)

\* the loop without the comparison of checksums
RECURSIVE sync_files_ignoring_report(_, _, _, _)
sync_files_ignoring_report(registry_assets, files, c, i) ==
    IF i > Len(registry_assets) THEN <<>>
    ELSE LET asset == registry_assets[i]
             rest == sync_files_ignoring_report(registry_assets, files, c, i + 1)
         IN IF truthy(asset.data)
            THEN <<Out(c, [command |-> "file", path |-> asset.path, data |-> <<>>])>> \o rest
            ELSE rest

\* message_dict["files"].get(path)
files_get(files, path) == IF path \in DOMAIN files THEN files[path] ELSE NoneVal

\* the for loop of the file_checksums branch over the assets from position i on:
\* the file messages it sends on connection c
RECURSIVE sync_files(_, _, _, _)
sync_files(registry_assets, files, c, i) ==
    IF i > Len(registry_assets) THEN <<>>
    ELSE LET asset == registry_assets[i]
             rest == sync_files(registry_assets, files, c, i + 1)
         IN IF truthy(asset.data) /\ files_get(files, asset.path) = asset.checksum
            THEN rest
            ELSE IF truthy(asset.data)
            THEN <<Out(c, FileMsg(asset.path, b64encode(asset.data)))>> \o rest
            ELSE rest

\* the message loop, messageType file_checksums
handle_file_checksums(c, files) ==
    /\ conn[c].pc = "open"
    /\ peer_sent' = sync_files(RegistryAssets, files, c, 1)
    /\ peer_op' = [PeerStep("file_checksums", c, conn[c].component_id, "none")
                      EXCEPT !.arg = files]
    /\ peer_emitted' = <<>>
    /\ UNCHANGED <<websockets, infos, conn, sync_assets, active_achievement_requests, thread,
                   perf_vars, match_vars, loop_vars, load_vars, core_vars>>

\* the connections whose handle_socket is in its message loop
LiveConns == {c \in Conns : conn[c].pc = "open"}

\* the connections whose handle_socket has ended, by a return or by an exception
TerminatedConns == {c \in Conns : conn[c].pc \in {"closed", "failed"}}

\* websockets.broadcast(sockets, message): the message is written to each socket of
\* the list that is open, in list order; the others are skipped
RECURSIVE broadcast(_, _, _)
broadcast(sockets, open, message) ==
    IF sockets = <<>> THEN <<>>
    ELSE (IF Head(sockets) \in open THEN <<Out(Head(sockets), message)>> ELSE <<>>)
         \o broadcast(Tail(sockets), open, message)

\* a broadcast that leaves out the connections not in the component map
send_command_registered_only(sockets, registered, open, data) ==
    broadcast(SelectSeq(sockets, LAMBDA c : c \in registered), open, data)

\* send_command(data) on the connection list
send_command(sockets, registered, open, data) == broadcast(sockets, open, data)

\* a call of send_command by the category's handle_action
call_send_command(data) ==
    /\ peer_sent' = send_command(websockets, {infos[k] : k \in DOMAIN infos}, LiveConns, data)
    /\ peer_op' = [PeerStep("send_command", 0, NoId, "none") EXCEPT !.arg = data]
    /\ peer_emitted' = <<>>
    /\ UNCHANGED <<websockets, infos, conn, sync_assets, active_achievement_requests, thread,
                   perf_vars, match_vars, loop_vars, load_vars, core_vars>>

\* has_component(component_id)
has_component(component_id) == component_id \in DOMAIN infos

\* a thread running impl of send_command_to: "start" before it has read
\* self._infos[component_id].socket, "read" when it holds the socket and has not sent
Thread(pc, component_id, data, websocket) ==
    [pc |-> pc, component_id |-> component_id, data |-> data, websocket |-> websocket]
NoThread == Thread("none", NoId, <<>>, 0)

\* send_command_to(component_id, data) on the event loop: the check, and the start
\* of the thread.  One thread is followed at a time.
send_command_to(component_id, data) ==
    /\ thread.pc = "none"
    /\ thread' = IF has_component(component_id)
                  THEN Thread("start", component_id, data, 0)
                  ELSE NoThread
    /\ peer_op' = [PeerStep("send_command_to", 0, component_id,
                             IF has_component(component_id) THEN "none" ELSE "not registered")
                      EXCEPT !.arg = data]
    /\ peer_emitted' = <<>>
    /\ peer_sent' = <<>>
    /\ UNCHANGED <<websockets, infos, conn, sync_assets, active_achievement_requests,
                   perf_vars, match_vars, loop_vars, load_vars, core_vars>>

\* impl on its thread, first statement: websocket = self._infos[component_id].socket;
\* a KeyError ends the thread
thread_read ==
    /\ thread.pc = "start"
    /\ thread' = IF thread.component_id \in DOMAIN infos
                  THEN [thread EXCEPT !.pc = "read", !.websocket = infos[thread.component_id]]
                  ELSE NoThread
    /\ peer_op' = [PeerStep("thread_read", 0, thread.component_id,
                             IF thread.component_id \in DOMAIN infos THEN "none" ELSE "KeyError")
                      EXCEPT !.arg = thread.data]
    /\ peer_emitted' = <<>>
    /\ peer_sent' = <<>>
    /\ UNCHANGED <<websockets, infos, conn, sync_assets, active_achievement_requests,
                   perf_vars, match_vars, loop_vars, load_vars, core_vars>>

\* impl on its thread, second statement: asyncio.run(websocket.send(json.dumps(data)));
\* a socket that is not open raises ConnectionClosed
thread_send ==
    /\ thread.pc = "read"
    /\ thread' = NoThread
    /\ peer_op' = [PeerStep("thread_send", thread.websocket, thread.component_id,
                             IF thread.websocket \in LiveConns THEN "none" ELSE "ConnectionClosed")
                      EXCEPT !.arg = thread.data]
    /\ peer_emitted' = <<>>
    /\ peer_sent' = IF thread.websocket \in LiveConns
                     THEN <<Out(thread.websocket, thread.data)>> ELSE <<>>
    /\ UNCHANGED <<websockets, infos, conn, sync_assets, active_achievement_requests,
                   perf_vars, match_vars, loop_vars, load_vars, core_vars>>

\* a text frame: json.loads raises on it, or gives this dict
InvalidJson == [json |-> FALSE, dict |-> <<>>]
Json(dict) == [json |-> TRUE, dict |-> dict]

LogMessageEvent(component_id, level, msg) ==
    [name |-> "log-message", arg |-> <<level, component_id, msg>>]

\* the outcome of the loop body for one message: the exception its except clause
\* caught, the component map, the local component_id and the notifications
MessageOutcome(exc, registry_infos, component_id, events) ==
    [raised |-> exc, infos |-> registry_infos, component_id |-> component_id,
     emitted |-> events]

\* the fields of the ComponentInfo dataclass
ComponentInfoFields == {"componentId", "componentName", "commands"}

\* handle_component_info with the entry stored before ComponentInfo is constructed
component_info_stored_first(registry_infos, c, component_id, dict) ==
    IF DOMAIN dict \ {"messageType"} # ComponentInfoFields
    THEN MessageOutcome("TypeError",
                        IF "componentId" \in DOMAIN dict
                        THEN dict_set(registry_infos, dict["componentId"], c)
                        ELSE registry_infos,
                        component_id, <<>>)
    ELSE MessageOutcome("none", dict_set(registry_infos, dict["componentId"], c),
                        dict["componentId"], <<InfoUpdatedEvent(dict["componentId"])>>)

\* component_id = self.handle_component_info(message_dict, websocket): the
\* constructor raises TypeError on a missing or an unexpected field
component_info(registry_infos, c, component_id, dict) ==
    IF DOMAIN dict \ {"messageType"} # ComponentInfoFields
    THEN MessageOutcome("TypeError", registry_infos, component_id, <<>>)
    ELSE MessageOutcome("none", dict_set(registry_infos, dict["componentId"], c),
                        dict["componentId"], <<InfoUpdatedEvent(dict["componentId"])>>)

\* MediaPeer.handle_component_message: the effect messages, else the warning of
\* the base class
media_handle_component_message(registry_infos, component_id, dict) ==
    IF dict["messageType"] \in {"effect-added", "effect-changed"}
    THEN MessageOutcome("none", registry_infos, component_id,
                        <<[name |-> dict["messageType"],
                           arg |-> <<[key \in DOMAIN dict \ {"messageType"} |-> dict[key]]>>]>>)
    ELSE IF dict["messageType"] = "effect-removed"
    THEN IF "entityId" \in DOMAIN dict
         THEN MessageOutcome("none", registry_infos, component_id,
                             <<[name |-> "effect-removed",
                                arg |-> <<[entityId |-> dict["entityId"]]>>]>>)
         ELSE MessageOutcome("KeyError", registry_infos, component_id, <<>>)
    ELSE MessageOutcome("none", registry_infos, component_id, <<>>)

\* the body of the message loop for the messages that send nothing
message_outcome(registry_infos, c, component_id, message) ==
    LET dict == message.dict
        unchanged(exc) == MessageOutcome(exc, registry_infos, component_id, <<>>)
    IN IF ~message.json THEN unchanged("JSONDecodeError")
       ELSE IF "messageType" \notin DOMAIN dict THEN unchanged("KeyError")
       ELSE IF dict["messageType"] = "heartbeat" THEN unchanged("none")
       ELSE IF dict["messageType"] = "component_info"
       THEN component_info(registry_infos, c, component_id, dict)
       ELSE IF dict["messageType"] = "log-message"
       THEN IF {"level", "msg"} \subseteq DOMAIN dict
            THEN MessageOutcome("none", registry_infos, component_id,
                                <<LogMessageEvent(component_id, dict["level"], dict["msg"])>>)
            ELSE unchanged("KeyError")
       ELSE IF dict["messageType"] = "file_checksums" /\ "files" \notin DOMAIN dict
       THEN unchanged("KeyError")
       ELSE media_handle_component_message(registry_infos, component_id, dict)

\* one turn of the message loop of connection c
handle_message(c, message) ==
    LET o == message_outcome(infos, c, conn[c].component_id, message)
    IN /\ conn[c].pc = "open"
       /\ infos' = o.infos
       /\ conn' = [conn EXCEPT ![c].component_id = o.component_id]
       /\ peer_op' = [step |-> "message", conn |-> c, component_id |-> o.component_id,
                      raised |-> o.raised, arg |-> message.dict,
                      after_failure |-> /\ peer_op.step = "message"
                                        /\ peer_op.conn = c
                                        /\ peer_op.raised # "none"]
       /\ peer_emitted' = o.emitted
       /\ peer_sent' = <<>>
       /\ UNCHANGED <<websockets, sync_assets, active_achievement_requests, thread,
                      perf_vars, match_vars, loop_vars, load_vars, core_vars>>

StateUpdatedEvent(component_id, state) ==
    [name |-> "state-updated", arg |-> <<component_id, state>>]

\* handle_component_state_update(component_id, state): the notification, or the
\* warning for a component that is not registered
handle_component_state_update(registry_infos, component_id, state) ==
    IF component_id \notin DOMAIN registry_infos THEN <<>>
    ELSE <<StateUpdatedEvent(component_id, state)>>

\* InventoryPeer.handle_achievement_reached(component_id, achievement): the requests
\* it leaves and the notifications it emits
handle_achievement_reached(requests, registry_infos, component_id, achievement) ==
    LET held == IF component_id \in DOMAIN requests THEN requests[component_id] ELSE <<>>
        added == Append(held, achievement)
    IN IF \E i \in 1..Len(held) : held[i].name = achievement.name
       THEN [requests |-> dict_set(requests, component_id, held), emitted |-> <<>>]
       ELSE [requests |-> dict_set(requests, component_id, added),
             emitted |-> handle_component_state_update(
                             registry_infos, component_id, [achievementsReached |-> added])]

\* one turn of the message loop of connection c of the inventory registry,
\* messageType achievement_reached
handle_achievement_reached_message(c, achievement) ==
    LET r == handle_achievement_reached(active_achievement_requests, infos,
                                        conn[c].component_id, achievement)
    IN /\ conn[c].pc = "open"
       /\ active_achievement_requests' = r.requests
       /\ peer_op' = [PeerStep("achievement_reached", c, conn[c].component_id, "none")
                         EXCEPT !.arg = achievement]
       /\ peer_emitted' = r.emitted
       /\ peer_sent' = <<>>
       /\ UNCHANGED <<websockets, infos, conn, sync_assets, thread,
                      perf_vars, match_vars, loop_vars, load_vars, core_vars>>

\* nof_instances(): the length of the connection list
nof_instances == Len(websockets)

Accept == \E c \in Conns : handle_socket_accept(c)
AcceptFails == \E c \in Conns : handle_socket_handshake_fails(c)

\* the commands a category's handle_action broadcasts
CommandData == {Command("play"), Command("stop")}
SendCommand == \E data \in CommandData : call_send_command(data)

\* the messages of a component, apart from file_checksums: a frame that is no
\* JSON, a dict without messageType, a heartbeat, component_info with and
\* without its commands, log-message with and without its msg, an unknown
\* type, and effect-removed without its entityId
Messages ==
    {InvalidJson,
     Json([channel |-> 1]),
     Json([messageType |-> "heartbeat"]),
     Json([messageType |-> "component_info", componentId |-> "x", componentName |-> "n"]),
     Json([messageType |-> "component_info", componentId |-> "x", componentName |-> "n",
           commands |-> <<>>]),
     Json([messageType |-> "log-message", level |-> "info", msg |-> "m"]),
     Json([messageType |-> "log-message", level |-> "info"]),
     Json([messageType |-> "unknown"]),
     Json([messageType |-> "effect-removed"])}

\* the messages followed are those of the connection that acted last
Message ==
    \E message \in Messages :
        /\ peer_op.conn \in Conns
        /\ handle_message(peer_op.conn, message)

\* reset_component(component_id), for an ID that may or may not be registered
ResetComponent == \E component_id \in ComponentIds : send_command_to(component_id, Command("reset"))
ThreadRead == thread_read
ThreadSend == thread_send
ComponentInfoMsg == \E c \in Conns, component_id \in ComponentIds : handle_component_info(c, component_id)
Closed == \E c \in Conns : handle_socket_closed(c)

\* the achievements an inventory component reports: two of one name
Achievements == {[name |-> "gold", text |-> "first"], [name |-> "gold", text |-> "again"]}
\* the messages followed are those of the connection that acted last
InventoryInfoMsg ==
    \E component_id \in ComponentIds :
        /\ peer_op.conn \in Conns
        /\ handle_component_info(peer_op.conn, component_id)
AchievementReachedMsg ==
    \E achievement \in Achievements :
        /\ peer_op.conn \in Conns
        /\ handle_achievement_reached_message(peer_op.conn, achievement)

\* the checksum reports a peer sends: each held path is absent, reported with the
\* held checksum, or reported with another one
RECURSIVE ReportsOn(_)
ReportsOn(n) ==
    IF n = 0 THEN {<<>>}
    ELSE LET asset == RegistryAssets[n]
         IN UNION {{files,
                    dict_set(files, asset.path, asset.checksum),
                    dict_set(files, asset.path, OtherChecksum)} : files \in ReportsOn(n - 1)}
FileReports == ReportsOn(Len(RegistryAssets))
\* the report followed is the first message of a connection after its handshake
FileChecksumsMsg ==
    \E files \in FileReports :
        /\ peer_op.step = "accept"
        /\ peer_op.raised = "none"
        /\ handle_file_checksums(peer_op.conn, files)

PeerInit ==
    /\ websockets = <<>>
    /\ infos = <<>>
    /\ conn = [c \in Conns |-> [pc |-> "new", component_id |-> NoId]]
    /\ peer_op = PeerStep("init", 0, NoId, "none")
    /\ peer_emitted = <<>>
    /\ peer_sent = <<>>
    /\ sync_assets \in BOOLEAN
    /\ thread = NoThread
    /\ active_achievement_requests = <<>>

\* the registry of a core started without asset synchronisation
PeerIdle ==
    /\ websockets = <<>>
    /\ infos = <<>>
    /\ conn = [c \in Conns |-> [pc |-> "new", component_id |-> NoId]]
    /\ peer_op = PeerStep("init", 0, NoId, "none")
    /\ peer_emitted = <<>>
    /\ peer_sent = <<>>
    /\ sync_assets = FALSE
    /\ thread = NoThread
    /\ active_achievement_requests = <<>>

----------------------------------------------------------------------------
(* Core: main.py.  The registries of all categories and the dispatch of an   *)
(* action to them.                                                          *)

\* the keys of self._components, in insertion order
Components == <<"internal", "media", "inventory", "ledController", "myggcheck">>

\* the target types each registry is constructed with
TargetTypes(peer) ==
    CASE peer = "internal" -> {"internal"}
      [] peer = "media" -> {"image", "video", "web", "audio"}
      [] peer = "inventory" -> {"inventory"}
      [] peer = "ledController" -> {"ledController"}
      [] peer = "myggcheck" -> {"myggcheck"}

handles_target(peer, target_type) == target_type \in TargetTypes(peer)

\* the registries that accept connections, and the client types that connect here
Registries == {"media", "inventory", "ledController", "myggcheck"}
ClientTypes == {"media", "inventory"}

\* peer.nof_instances(): InternalPeer says 1, the others count their connections
peer_nof_instances(comps, peer) == IF peer = "internal" THEN 1 ELSE Len(comps[peer])

\* a connection list shared by all registries instead of one per registry
registry_websockets_shared(comps, peer) ==
    comps["media"] \o comps["inventory"] \o comps["ledController"] \o comps["myggcheck"]

\* peer._websockets
registry_websockets(comps, peer) == comps[peer]

ActionTemplate(id, target, cmd, assets, params, subactions) ==
    [id |-> id, target |-> target, cmd |-> cmd, assets |-> assets, params |-> params,
     subactions |-> subactions]

\* the assets of the opus, by key
OpusAssets == [img |-> RegistryAssets[1]]

\* a composite action as load_actions builds it
Composite(id, subactions) == ActionTemplate(id, "internal", "nop", <<>>, <<>>, subactions)
PrintAction(id, text) == ActionTemplate(id, "internal", "print", <<>>, [text |-> text], <<>>)

door_1 == Composite("door_1", <<PrintAction("door_1_1", "open"), PrintAction("door_1_2", "closed")>>)
play == ActionTemplate("play", "video", "play", <<"img">>, [entityId |-> "v1"], <<>>)
play_no_entity == ActionTemplate("play_no_entity", "video", "play", <<>>, <<>>, <<>>)
create == ActionTemplate("create", "image", "create", <<"img">>, <<>>, <<>>)
add_item == ActionTemplate("add_item", "inventory", "add", <<>>, [item |-> "key"], <<>>)

\* a parametrized action whose subactions are a named composite and plain actions
scene == Composite("scene", <<door_1, play_no_entity, add_item, play>>)

\* a composite whose second subaction lists an asset ID that is not in the asset
\* table; validate_references reads the assets of top-level actions only
broken ==
    Composite("broken", <<PrintAction("broken_1", "first"),
                          ActionTemplate("broken_2", "video", "play", <<"typo">>,
                                         [entityId |-> "v2"], <<>>),
                          PrintAction("broken_3", "last")>>)

\* a composite whose first subaction is in order and whose second lists an asset
\* ID that is not in the asset table
half ==
    Composite("half", <<add_item,
                        ActionTemplate("half_2", "image", "create", <<"typo">>, <<>>, <<>>)>>)

\* opus.action_templates
action_templates ==
    [door_1 |-> door_1, play |-> play, play_no_entity |-> play_no_entity,
     create |-> create, add_item |-> add_item, scene |-> scene, broken |-> broken,
     half |-> half]

\* the events of a trace
HandleActionEvent(peer, action) ==
    [kind |-> "handle_action", peer |-> peer, id |-> action.id, target |-> action.target,
     cmd |-> action.cmd]
SendEvent(peer, out) == [kind |-> "send", peer |-> peer, to |-> out.to, data |-> out.msg]
PrintEvent(text) == [kind |-> "print", text |-> text]
FailedEvent(id, exc) == [kind |-> "failed", id |-> id, raised |-> exc]
NotHandledEvent(id) == [kind |-> "not_handled", id |-> id]
SkippedEvent(id) == [kind |-> "skipped", id |-> id]

\* dict.update: the entries of d, replaced or extended by those of params
dict_update(d, params) ==
    [k \in DOMAIN d \cup DOMAIN params |-> IF k \in DOMAIN params THEN params[k] ELSE d[k]]

\* asset = None, and the entity ID get_random_string makes
NoAsset == "None"
RandomString == "random"

\* self.send_command(data) of the registry peer, as events of the trace
peer_send_command(comps, peer, data) ==
    LET sockets == registry_websockets(comps, peer)
        outs == send_command(sockets, {}, Members(sockets), data)
    IN [i \in 1..Len(outs) |-> SendEvent(peer, outs[i])]

Returned(trace) == [raised |-> "none", trace |-> trace]
Raised(exc, trace) == [raised |-> exc, trace |-> trace]

\* InternalPeer.handle_action
internal_handle_action(cmd, params) ==
    IF cmd = "print"
    THEN Returned(<<PrintEvent(IF "text" \in DOMAIN params THEN params["text"]
                               ELSE "[print command found no text to print]")>>)
    ELSE IF cmd = "nop" THEN Returned(<<>>)
    ELSE Returned(<<PrintEvent("Command not handled by subclass")>>)

\* MediaPeer.handle_action, for the commands other than create_random
media_handle_action(comps, target_type, cmd, assets, params) ==
    LET given == "entityId" \in DOMAIN params
        entityId == IF given THEN params["entityId"] ELSE RandomString
        asset == IF assets # <<>> THEN assets[1].path ELSE NoAsset
        data == [command |-> cmd, entityId |-> entityId, channel |-> 1,
                 type |-> target_type, asset |-> asset]
    IN IF ~given /\ cmd \notin {"create", "create_random"}
       THEN Raised("RuntimeError", <<>>)
       ELSE Returned(peer_send_command(comps, "media", dict_update(data, params)))

\* handle_action of InventoryPeer, LedControllerPeer and MyggCheckPeer
forward_handle_action(comps, peer, target_type, cmd, params) ==
    Returned(peer_send_command(comps, peer,
        dict_update([command |-> cmd, channel |-> 1, type |-> target_type], params)))

\* peer.handle_action(target_type, cmd, assets, params)
handle_action(comps, peer, target_type, cmd, assets, params) ==
    IF peer = "internal" THEN internal_handle_action(cmd, params)
    ELSE IF peer = "media" THEN media_handle_action(comps, target_type, cmd, assets, params)
    ELSE forward_handle_action(comps, peer, target_type, cmd, params)

\* the loop of _run_action counting a handler that raised as having handled
RECURSIVE dispatch_handled_when_raised(_, _, _, _)
dispatch_handled_when_raised(action, assets, comps, i) ==
    IF i > Len(Components) THEN [handled |-> FALSE, trace |-> <<>>]
    ELSE LET peer == Components[i]
             rest == dispatch_handled_when_raised(action, assets, comps, i + 1)
             r == handle_action(comps, peer, action.target, action.cmd, assets, action.params)
             call == <<HandleActionEvent(peer, action)>>
         IN IF handles_target(peer, action.target) /\ peer_nof_instances(comps, peer) > 0
            THEN [handled |-> TRUE,
                  trace |-> call \o r.trace
                            \o (IF r.raised = "none" THEN <<>>
                                ELSE <<FailedEvent(action.id, r.raised)>>)
                            \o rest.trace]
            ELSE rest

RECURSIVE dispatch(_, _, _, _)
RECURSIVE run_subactions(_, _, _)
RECURSIVE _run_action(_, _)

\* the loop of _run_action over self._components.values(), from position i:
\* whether a handler returned, and what the handlers did
dispatch(action, assets, comps, i) ==
    IF i > Len(Components) THEN [handled |-> FALSE, trace |-> <<>>]
    ELSE LET peer == Components[i]
             rest == dispatch(action, assets, comps, i + 1)
             r == handle_action(comps, peer, action.target, action.cmd, assets, action.params)
             call == <<HandleActionEvent(peer, action)>>
         IN IF handles_target(peer, action.target) /\ peer_nof_instances(comps, peer) > 0
            THEN IF r.raised = "none"
                 THEN [handled |-> TRUE, trace |-> call \o r.trace \o rest.trace]
                 ELSE [handled |-> rest.handled,
                       trace |-> call \o r.trace \o <<FailedEvent(action.id, r.raised)>>
                                 \o rest.trace]
            ELSE rest

\* the loop of _run_action over action.subactions, from position i; an exception
\* leaves the loop
run_subactions(subactions, comps, i) ==
    IF i > Len(subactions) THEN Returned(<<>>)
    ELSE LET r == _run_action(subactions[i], comps)
             rest == run_subactions(subactions, comps, i + 1)
         IN IF r.raised # "none" THEN r
            ELSE [raised |-> rest.raised, trace |-> r.trace \o rest.trace]

\* _run_action with the subactions run before the action's own dispatch
_run_action_subactions_first(action, comps) ==
    LET assets == [i \in 1..Len(action.assets) |-> OpusAssets[action.assets[i]]]
        d == dispatch(action, assets, comps, 1)
        sub == run_subactions(action.subactions, comps, 1)
    IN [raised |-> sub.raised,
        trace |-> sub.trace \o d.trace
                  \o (IF d.handled THEN <<>> ELSE <<NotHandledEvent(action.id)>>)]

\* _run_action raising after its warning when nobody handled the action
_run_action_raises_unhandled(action, comps) ==
    LET assets == [i \in 1..Len(action.assets) |-> OpusAssets[action.assets[i]]]
        d == dispatch(action, assets, comps, 1)
        sub == run_subactions(action.subactions, comps, 1)
    IN IF \E i \in 1..Len(action.assets) : action.assets[i] \notin DOMAIN OpusAssets
       THEN Raised("KeyError", <<>>)
       ELSE IF ~d.handled THEN Raised("RuntimeError", d.trace \o <<NotHandledEvent(action.id)>>)
       ELSE [raised |-> sub.raised, trace |-> d.trace \o sub.trace]

\* Core._run_action(action)
_run_action(action, comps) ==
    LET assets == [i \in 1..Len(action.assets) |-> OpusAssets[action.assets[i]]]
        d == dispatch(action, assets, comps, 1)
        sub == run_subactions(action.subactions, comps, 1)
    IN IF \E i \in 1..Len(action.assets) : action.assets[i] \notin DOMAIN OpusAssets
       THEN Raised("KeyError", <<>>)
       ELSE [raised |-> sub.raised,
             trace |-> d.trace
                       \o (IF d.handled THEN <<>> ELSE <<NotHandledEvent(action.id)>>)
                       \o sub.trace]

\* Core._run_action_by_id(action_id): a KeyError of the lookup or of the run is
\* caught and printed
_run_action_by_id(action_id, comps) ==
    LET r == _run_action(action_templates[action_id], comps)
    IN IF action_id \notin DOMAIN action_templates
       THEN Returned(<<SkippedEvent(action_id)>>)
       ELSE IF r.raised = "KeyError"
       THEN Returned(r.trace \o <<SkippedEvent(action_id)>>)
       ELSE r

CoreOp(name, c, action_id, exc) ==
    [name |-> name, conn |-> c, action_id |-> action_id, raised |-> exc]

\* socket_listener hands a connection of a component client type to its registry,
\* whose handle_socket appends it
core_connect(c, client_type) ==
    /\ client[c] = "new"
    /\ components' = [components EXCEPT ![client_type] = Append(@, c)]
    /\ client' = [client EXCEPT ![c] = client_type]
    /\ core_op' = CoreOp("connect", c, "", "none")
    /\ core_trace' = <<>>
    /\ UNCHANGED <<perf_vars, peer_vars, match_vars, loop_vars, load_vars>>

\* the connection ends and handle_socket removes it from its registry
core_disconnect(c) ==
    /\ client[c] \in ClientTypes
    /\ components' = [components EXCEPT ![client[c]] = list_remove(@, c)]
    /\ client' = [client EXCEPT ![c] = "closed"]
    /\ core_op' = CoreOp("disconnect", c, "", "none")
    /\ core_trace' = <<>>
    /\ UNCHANGED <<perf_vars, peer_vars, match_vars, loop_vars, load_vars>>

\* the listener of "run-action": Core._run_action_by_id
call_run_action_by_id(action_id) ==
    LET r == _run_action_by_id(action_id, components)
    IN /\ core_op' = CoreOp("_run_action_by_id", 0, action_id, r.raised)
       /\ core_trace' = r.trace
       /\ UNCHANGED <<components, client, perf_vars, peer_vars, match_vars, loop_vars, load_vars>>

\* the action IDs run: those of the opus and one that is not in it
ActionIds == DOMAIN action_templates \cup {"missing"}

Connect == \E c \in Conns, client_type \in ClientTypes : core_connect(c, client_type)
Disconnect == \E c \in Conns : core_disconnect(c)
RunActionById == \E action_id \in ActionIds : call_run_action_by_id(action_id)

CoreInit ==
    /\ components = [peer \in Registries |-> <<>>]
    /\ client = [c \in Conns |-> "new"]
    /\ core_op = CoreOp("init", 0, "", "none")
    /\ core_trace = <<>>

----------------------------------------------------------------------------
(* Performance and Core together: emit calls the listeners in place, so a   *)
(* "run-action" notification runs Core._run_action_by_id inside next_node   *)

\* EventEmitter.emit for the notifications of one call, from position i on,
\* after the listeners left trace: the listener of "run-action" is
\* Core._run_action_by_id, and an exception of a listener leaves emit and the
\* call that emitted
RECURSIVE deliver(_, _, _, _)
deliver(events, comps, i, trace) ==
    IF i > Len(events)
    THEN [raised |-> "none", trace |-> trace, delivered |-> Len(events)]
    ELSE LET r == IF events[i].name = "run-action"
                  THEN _run_action_by_id(events[i].arg[1], comps)
                  ELSE Returned(<<>>)
         IN IF r.raised # "none"
            THEN [raised |-> r.raised, trace |-> trace \o r.trace, delivered |-> i]
            ELSE deliver(events, comps, i + 1, trace \o r.trace)

\* one call of the engine with the listeners of main.py attached
perform_with_listeners(a) ==
    \E r \in {Invoke(a.method, a, history)} :
    \E l \in {deliver(r.events, components, 1, <<>>)} :
       /\ history' = IF l.raised = "none" THEN r.history ELSE r.events[l.delivered].seen
       /\ emitted' = SubSeq(r.events, 1, l.delivered)
       /\ ui' = ui_listener(ui, SubSeq(r.events, 1, l.delivered), 1)
       /\ pre' = history
       /\ op' = [a EXCEPT !.raised = IF r.raised # "none" THEN r.raised ELSE l.raised]
       /\ core_op' = CoreOp("listeners", 0, "", l.raised)
       /\ core_trace' = l.trace
       /\ UNCHANGED <<opus_file, components, client, peer_vars, match_vars, loop_vars, load_vars>>

OperatorNextNode ==
    /\ Len(history) < MaxHistory
    /\ \E run \in BOOLEAN :
           perform_with_listeners([Call("next-node", "next_node") EXCEPT !.run_actions = run])

OperatorChoosePath ==
    /\ Len(history) < MaxHistory
    /\ \E i \in 0..MaxIndex, run \in BOOLEAN :
           perform_with_listeners([Call("choose-path", "choose_path")
                                      EXCEPT !.choice_index = i, !.run_actions = run])

ShowInit ==
    /\ opus_file = "show.yaml"
    /\ history = <<opus.start_node>>
    /\ pre = <<opus.start_node>>
    /\ op = Call("none", "__init__")
    /\ emitted = <<>>
    /\ ui = UI(PerformanceHistory)

----------------------------------------------------------------------------
(* Loading: opus.py, validate_references *)

\* nothing is being loaded
NoCall == [function |-> "none"]
NotRun == [done |-> FALSE]
LoadIdle ==
    /\ load_in = NoCall
    /\ load_out = NotRun

\* the Opus as validate_references reads it: the node table, the action table,
\* the keys of the asset table, the shortcuts of ui_config and start_node
LoadedOpus(nodes, start_node, templates, asset_keys, shortcuts) ==
    [nodes |-> nodes, start_node |-> start_node, action_templates |-> templates,
     assets |-> asset_keys, shortcuts |-> shortcuts]

\* hotkey = None
NoHotkey == "None"
UIShortcut(title, actions, hotkey) == [title |-> title, actions |-> actions, hotkey |-> hotkey]

\* an empty dict
EmptyDict == [k \in {} |-> k]

\* what one block of validate_references prints after "Malformed opus!"
Finding(category, nonexistent, unreferred, used) ==
    [category |-> category, nonexistent |-> nonexistent, unreferred |-> unreferred,
     used |-> used]

\* referred_nodes without the loop over the choices of a node
referred_nodes_without_choices(o) ==
    {o.start_node}
    \cup {o.nodes[n].next.node : n \in {k \in DOMAIN o.nodes : o.nodes[k].next.kind = "str"}}

\* referred_nodes: start_node and the next of every declared node
referred_nodes(o) ==
    {o.start_node}
    \cup {o.nodes[n].next.node : n \in {k \in DOMAIN o.nodes : o.nodes[k].next.kind = "str"}}
    \cup UNION {{o.nodes[n].next.choices[i].node : i \in 1..Len(o.nodes[n].next.choices)} :
                n \in {k \in DOMAIN o.nodes : o.nodes[k].next.kind = "list"}}

\* referred_assets: "script" and the assets of the actions of the action table
referred_assets(o) ==
    {"script"} \cup UNION {Members(o.action_templates[a].assets) : a \in DOMAIN o.action_templates}

\* update_referred_action(action): the IDs it adds to referred_actions
RECURSIVE update_referred_action(_, _)
update_referred_action(o, action) ==
    {action.id}
    \cup UNION {update_referred_action(o, action.subactions[i]) :
                i \in {k \in 1..Len(action.subactions) :
                          action.subactions[k].id \in DOMAIN o.action_templates}}

\* referred_actions after the loops over the nodes, their choices and the shortcuts
referred_actions(o) ==
    UNION {UNION {IF o.nodes[n].actions[i] \in DOMAIN o.action_templates
                  THEN update_referred_action(o, o.action_templates[o.nodes[n].actions[i]])
                  ELSE {o.nodes[n].actions[i]} : i \in 1..Len(o.nodes[n].actions)} :
           n \in DOMAIN o.nodes}
    \cup UNION {UNION {Members(o.nodes[n].next.choices[i].actions) :
                       i \in 1..Len(o.nodes[n].next.choices)} :
                n \in {k \in DOMAIN o.nodes : o.nodes[k].next.kind = "list"}}
    \cup UNION {Members(o.shortcuts[i].actions) : i \in 1..Len(o.shortcuts)}

DISALLOWED_HOTKEYS ==
    {"ctrl+t", "ctrl+n", "ctrl+w", "ctrl+r",
     "a", "s", " ", "Up", "ArrowUp", "Down", "ArrowDown", "Enter"}

\* used_disallowed_hotkeys, as title and hotkey
used_disallowed_hotkeys(o) ==
    LET used == SelectSeq(o.shortcuts, LAMBDA shortcut : shortcut.hotkey \in DISALLOWED_HOTKEYS)
    IN [i \in 1..Len(used) |-> <<used[i].title, used[i].hotkey>>]

\* if referred != actual: the block that prints both differences
mismatch(category, referred, actual) ==
    IF referred # actual
    THEN <<Finding(category, referred \ actual, actual \ referred, <<>>)>>
    ELSE <<>>

\* the four blocks in order; sys.exit(1) ends the run inside the first block that
\* has something to report when exit_on_failure is set
RECURSIVE validate_blocks(_, _, _)
validate_blocks(blocks, exit_on_failure, i) ==
    IF i > Len(blocks) THEN [report |-> <<>>, exited |-> FALSE]
    ELSE IF blocks[i] # <<>> /\ exit_on_failure THEN [report |-> blocks[i], exited |-> TRUE]
    ELSE LET rest == validate_blocks(blocks, exit_on_failure, i + 1)
         IN [report |-> blocks[i] \o rest.report, exited |-> rest.exited]

validate_references(o, exit_on_failure) ==
    LET used == used_disallowed_hotkeys(o)
    IN validate_blocks(
           << mismatch("nodes", referred_nodes(o), DOMAIN o.nodes),
              mismatch("assets", referred_assets(o), o.assets),
              mismatch("actions", referred_actions(o), DOMAIN o.action_templates),
              IF used # <<>> THEN <<Finding("hotkeys", {}, {}, used)>> ELSE <<>> >>,
           exit_on_failure, 1)

\* the call, and what it left behind
ValidateCall(o, exit_on_failure) ==
    [function |-> "validate_references", opus |-> o, exit_on_failure |-> exit_on_failure]

call_validate_references ==
    /\ load_in.function = "validate_references"
    /\ ~load_out.done
    /\ \E r \in {validate_references(load_in.opus, load_in.exit_on_failure)} :
           load_out' = [done |-> TRUE, report |-> r.report, exited |-> r.exited]
    /\ UNCHANGED <<load_in, perf_vars, peer_vars, match_vars, loop_vars, core_vars>>

\* node tables over three IDs: every node ends, continues, or offers two choices
NodeIds == {"a", "b", "c"}
NextOptions ==
    {NextNone} \cup {NextStr(t) : t \in NodeIds}
    \cup {NextList(<<NodeChoice(t1, <<>>), NodeChoice(t2, <<>>)>>) : t1, t2 \in NodeIds}
NodeTables ==
    UNION {[D -> {Node(nxt, <<>>) : nxt \in NextOptions}] : D \in SUBSET NodeIds \ {{}}}

\* opuses that differ in their node tables only
NodeOpuses ==
    {LoadedOpus(nodes, "a", EmptyDict, {"script"}, <<>>) : nodes \in NodeTables}

\* one node that fires the listed actions and goes back to itself
LoopNode(actions) == ("a" :> Node(NextStr("a"), actions))

\* opuses that differ in their asset table and in the assets that the action t
\* and the subaction k_1 of the composite k list; "script" is always there, as
\* load_opus requires
AssetLists == {<<>>, <<"x">>, <<"y">>}
AssetOpuses ==
    {LoadedOpus(LoopNode(<<"t", "k">>), "a",
                ( "t" :> ActionTemplate("t", "image", "show", top, EmptyDict, <<>>)
               @@ "k" :> Composite("k", <<ActionTemplate("k_1", "video", "play", sub,
                                                         EmptyDict, <<>>)>>) ),
                {"script"} \cup keys, <<>>) :
        top \in AssetLists, sub \in AssetLists, keys \in SUBSET {"x", "y"}}

\* opuses with the action d and the parametrized action s whose subaction is the
\* named action d; they differ in the actions that the node, its choice and the
\* shortcut list
ActionLists == {<<>>, <<"s">>, <<"d">>, <<"ghost">>}
NamedSubactionTable ==
    ( "d" :> PrintAction("d", "open")
   @@ "s" :> Composite("s", <<PrintAction("d", "open")>>) )
ActionOpuses ==
    {LoadedOpus(("a" :> Node(NextList(<<NodeChoice("a", of_choice)>>), of_node)), "a",
                NamedSubactionTable, {"script"},
                <<UIShortcut("shortcut", of_shortcut, NoHotkey)>>) :
        of_node \in ActionLists, of_choice \in ActionLists, of_shortcut \in ActionLists}

\* opuses in which each of the four categories is in order or not: a next that
\* is not declared, an asset nobody lists, an action that is not declared, a
\* hotkey of the UI itself
MixedOpuses ==
    {LoadedOpus(("a" :> Node(NextStr(nxt), <<"d">> \o more)), "a",
                ("d" :> PrintAction("d", "open")), {"script"} \cup keys,
                <<UIShortcut("shortcut", <<"d">>, hotkey)>>) :
        nxt \in {"a", "ghost"}, more \in {<<>>, <<"ghost">>}, keys \in {{}, {"x"}},
        hotkey \in {NoHotkey, "ctrl+q", "Enter"}}

ValidateInit ==
    /\ load_in \in {ValidateCall(o, e) :
                       o \in NodeOpuses \cup AssetOpuses \cup ActionOpuses \cup MixedOpuses,
                       e \in BOOLEAN}
    /\ load_out = NotRun

----------------------------------------------------------------------------
(* Loading: opus.py, load_opus and load_asset; main.py, _distribute_assets *)

\* the files next to the opus file, and the asset paths that are URLs
FileContent ==
    ( "script.pdf" :> <<37, 80>>
   @@ "a.png" :> <<104, 105>>
   @@ "b.mp3" :> <<255, 0, 16, 32>>
   @@ "e.txt" :> <<>> )
HttpPaths == {"http://u"}

\* path.startswith("http://") or path.startswith("https://")
is_url(path) == path \in HttpPaths

\* fill_targets_from_action looking at the action itself only
fill_targets_top_level_only(key, action) ==
    IF key \in Members(action.assets) THEN {action.target} ELSE {}

\* fill_targets_from_action(action, result): the targets it adds for this key
RECURSIVE fill_targets_from_action(_, _)
fill_targets_from_action(key, action) ==
    (IF key \in Members(action.assets) THEN {action.target} ELSE {})
    \cup UNION {fill_targets_from_action(key, action.subactions[i]) :
                i \in 1..Len(action.subactions)}

\* load_asset(key, path, action_templates, opus_path, read_asset_data)
load_asset(key, path, templates, read_asset_data) ==
    LET targets == UNION {fill_targets_from_action(key, templates[a]) : a \in DOMAIN templates}
        read == read_asset_data /\ ~is_url(path)
    IN IF read /\ path \notin DOMAIN FileContent
       THEN [raised |-> "FileNotFoundError"]
       ELSE [raised |-> "none", key |-> key, path |-> path,
             data |-> IF read THEN FileContent[path] ELSE NoData,
             checksum |-> IF read THEN md5(FileContent[path]) ELSE NoneVal,
             targets |-> targets]

\* no Opus: load_opus did not return
NoOpus == [returned |-> FALSE]
LoadResult(exc, o) == [raised |-> exc, opus |-> o]

\* ui: absent from the opus file
NoUi == <<"None">>

\* load_opus that asks for "script" nowhere
load_opus_script_optional(opus_dict, read_asset_data, exit_on_validation_failure) ==
    LET templates == opus_dict.action_templates
        loaded == [key \in DOMAIN opus_dict.assets |->
                      load_asset(key, opus_dict.assets[key], templates, read_asset_data)]
        v == validate_references(
                 LoadedOpus(opus_dict.nodes, opus_dict.startNode, templates,
                            DOMAIN opus_dict.assets, opus_dict.ui),
                 exit_on_validation_failure)
    IN IF opus_dict.ui = NoUi THEN LoadResult("TypeError", NoOpus)
       ELSE IF \E key \in DOMAIN loaded : loaded[key].raised # "none"
       THEN LoadResult("FileNotFoundError", NoOpus)
       ELSE IF v.exited THEN LoadResult("SystemExit", NoOpus)
       ELSE LoadResult("none",
                [returned |-> TRUE, nodes |-> opus_dict.nodes,
                 start_node |-> opus_dict.startNode, action_templates |-> templates,
                 assets |-> loaded, shortcuts |-> opus_dict.ui])

\* load_opus(opus_path, read_asset_data, exit_on_validation_failure); the
\* actions of the file are given as load_actions returns them, and the inlined
\* actions and assets are part of the tables
load_opus(opus_dict, read_asset_data, exit_on_validation_failure) ==
    LET templates == opus_dict.action_templates
        loaded == [key \in DOMAIN opus_dict.assets |->
                      load_asset(key, opus_dict.assets[key], templates, read_asset_data)]
        v == validate_references(
                 LoadedOpus(opus_dict.nodes, opus_dict.startNode, templates,
                            DOMAIN opus_dict.assets, opus_dict.ui),
                 exit_on_validation_failure)
    IN \* opus_dict["assets"]["script"]["path"], for load_nodes
       IF "script" \notin DOMAIN opus_dict.assets THEN LoadResult("KeyError", NoOpus)
       \* fitz.open(script_path)
       ELSE IF opus_dict.assets["script"] \notin DOMAIN FileContent
       THEN LoadResult("FileNotFoundError", NoOpus)
       \* ui_config, inlined_actions_dict_ui = UIConfig([])
       ELSE IF opus_dict.ui = NoUi THEN LoadResult("TypeError", NoOpus)
       ELSE IF \E key \in DOMAIN loaded : loaded[key].raised # "none"
       THEN LoadResult("FileNotFoundError", NoOpus)
       ELSE IF v.exited THEN LoadResult("SystemExit", NoOpus)
       ELSE LoadResult("none",
                [returned |-> TRUE, nodes |-> opus_dict.nodes,
                 start_node |-> opus_dict.startNode, action_templates |-> templates,
                 assets |-> loaded, shortcuts |-> opus_dict.ui])

\* Core._distribute_assets: ComponentPeer._assets of every registry afterwards.
\* The assets are taken in the order of the keys given.
RECURSIVE distribute_assets(_, _)
distribute_assets(assets, keys) ==
    IF keys = <<>> THEN [peer \in Members(Components) |-> <<>>]
    ELSE LET asset == assets[Last(keys)]
             before == distribute_assets(assets, SubSeq(keys, 1, Len(keys) - 1))
         IN [peer \in Members(Components) |->
                IF \E target \in asset.targets : handles_target(peer, target)
                THEN Append(before[peer], asset)
                ELSE before[peer]]

LoadCall(opus_dict, read_asset_data, exit_on_validation_failure) ==
    [function |-> "load_opus", opus_dict |-> opus_dict, read_asset_data |-> read_asset_data,
     exit_on_validation_failure |-> exit_on_validation_failure]

\* main: load_opus, whose exception ends the program
call_load_opus ==
    /\ load_in.function = "load_opus"
    /\ ~load_out.done
    /\ \E r \in {load_opus(load_in.opus_dict, load_in.read_asset_data,
                            load_in.exit_on_validation_failure)} :
           load_out' = [done |-> TRUE, raised |-> r.raised, opus |-> r.opus,
                        distributed |-> FALSE, registry_assets |-> <<>>]
    /\ UNCHANGED <<load_in, perf_vars, peer_vars, match_vars, loop_vars, core_vars>>

\* the keys of opus.assets in the order of the asset table of the file
AssetKeyOrder == <<"script", "img", "snd", "url", "lone", "gone">>
KeysIn(assets) == SelectSeq(AssetKeyOrder, LAMBDA key : key \in DOMAIN assets)

\* main: self._distribute_assets(), once the opus is loaded
call_distribute_assets ==
    /\ load_in.function = "load_opus"
    /\ load_out.done
    /\ load_out.raised = "none"
    /\ ~load_out.distributed
    /\ load_out' = [load_out EXCEPT
                       !.distributed = TRUE,
                       !.registry_assets = distribute_assets(load_out.opus.assets,
                                                             KeysIn(load_out.opus.assets))]
    /\ UNCHANGED <<load_in, perf_vars, peer_vars, match_vars, loop_vars, core_vars>>

\* the asset table of the file: any of these keys, "gone" being a file that is
\* not there
AssetPaths ==
    ( "script" :> "script.pdf" @@ "img" :> "a.png" @@ "snd" :> "b.mp3"
   @@ "url" :> "http://u" @@ "lone" :> "e.txt" @@ "gone" :> "gone.png" )
AssetTables == {[key \in keys |-> AssetPaths[key]] : keys \in SUBSET DOMAIN AssetPaths}

\* action tables: one action; that action with a composite k, an action of
\* another category and a parametrized action s whose subaction is the named
\* composite k
ShowTable == ("show" :> ActionTemplate("show", "image", "show", <<"img">>, EmptyDict, <<>>))
NestedTable ==
    LET k == Composite("k", <<ActionTemplate("k_1", "video", "play", <<"img", "snd">>,
                                             EmptyDict, <<>>),
                              ActionTemplate("k_2", "web", "open", <<"url">>,
                                             EmptyDict, <<>>)>>)
    IN ( "k" :> k
      @@ "inv" :> ActionTemplate("inv", "inventory", "add", <<"snd">>, EmptyDict, <<>>)
      @@ "s" :> Composite("s", <<k, PrintAction("s_2", "done")>>)
      @@ "show" :> ShowTable["show"] )
ActionTables == {EmptyDict, ShowTable, NestedTable}
NodeActionsOf(templates) ==
    IF templates = ShowTable THEN <<"show">>
    ELSE IF templates = NestedTable THEN <<"s", "inv", "show">>
    ELSE <<>>

OpusDicts ==
    {[nodes |-> LoopNode(NodeActionsOf(templates)), startNode |-> "a",
      action_templates |-> templates, assets |-> assets, ui |-> ui_dict] :
        templates \in ActionTables, assets \in AssetTables, ui_dict \in {NoUi, <<>>}}

LoadInit ==
    /\ load_in \in {LoadCall(d, r, e) : d \in OpusDicts, r \in BOOLEAN, e \in BOOLEAN}
    /\ load_out = NotRun

----------------------------------------------------------------------------
(* Loading: opus.py, load_actions, the branch of a parametrized action.     *)
(* A YAML value is a string (a sequence of characters) or a number.         *)

StrValue(chars) == [type |-> "str", chars |-> chars, number |-> 0]
IntValue(n) == [type |-> "int", chars |-> <<>>, number |-> n]

\* str(value), for a string and for a number below 100
DigitChars == <<"0", "1", "2", "3", "4", "5", "6", "7", "8", "9">>
str(value) ==
    IF value.type = "str" THEN value.chars
    ELSE IF value.number < 10 THEN <<DigitChars[value.number + 1]>>
    ELSE <<DigitChars[(value.number \div 10) + 1], DigitChars[(value.number % 10) + 1]>>

\* old in s
str_contains(s, old) ==
    \E i \in 1..(Len(s) - Len(old) + 1) : SubSeq(s, i, i + Len(old) - 1) = old

\* s.replace(old, new): every occurrence, left to right, without overlap
RECURSIVE str_replace(_, _, _)
str_replace(s, old, new) ==
    IF Len(s) < Len(old) THEN s
    ELSE IF SubSeq(s, 1, Len(old)) = old
    THEN new \o str_replace(SubSeq(s, Len(old) + 1, Len(s)), old, new)
    ELSE <<Head(s)>> \o str_replace(Tail(s), old, new)

\* a JSON path into the list of subactions: $[index].params.<field>, or
\* $[*].params.<field> for every subaction
JsonPath(every, index, field) == [every |-> every, index |-> index, field |-> field]

\* expr.find(subactions_list): the positions of the list the path matches, in
\* the order of the list
find(path, subactions_list) ==
    SelectSeq([i \in 1..Len(subactions_list) |-> i],
              LAMBDA i : /\ path.every \/ i = path.index + 1
                         /\ path.field \in DOMAIN subactions_list[i].params)

\* expr.update(subactions_list, new_value): every match is given the value
update(path, subactions_list, new_value) ==
    [i \in 1..Len(subactions_list) |->
        IF i \in Members(find(path, subactions_list))
        THEN [subactions_list[i] EXCEPT !.params[path.field] = new_value]
        ELSE subactions_list[i]]

\* one change order of a parameter, applied to the list
change(subactions_list, parameter, path, value) ==
    LET parameter_var == <<"$">> \o parameter
        orig_value == find(path, subactions_list)
        first == subactions_list[orig_value[1]].params[path.field]
        new_value == IF first.type = "str" /\ str_contains(first.chars, parameter_var)
                     THEN StrValue(str_replace(first.chars, parameter_var, str(value)))
                     ELSE value
    IN IF Len(orig_value) > 0
       THEN [raised |-> "none", list |-> update(path, subactions_list, new_value)]
       ELSE [raised |-> "RuntimeError", list |-> subactions_list]

\* the loop over the change orders of one parameter, from order i on
RECURSIVE change_orders(_, _, _, _, _)
change_orders(subactions_list, parameter, change_list, value, i) ==
    IF i > Len(change_list) THEN [raised |-> "none", list |-> subactions_list]
    ELSE LET r == change(subactions_list, parameter, change_list[i], value)
         IN IF r.raised # "none" THEN r
            ELSE change_orders(r.list, parameter, change_list, value, i + 1)

\* the loop over template["parameters"], from parameter i on
RECURSIVE substitute(_, _, _, _)
substitute(subactions_list, parameters, given, i) ==
    IF i > Len(parameters) THEN [raised |-> "none", list |-> subactions_list]
    ELSE IF parameters[i].name \notin DOMAIN given
    THEN [raised |-> "KeyError", list |-> subactions_list]
    ELSE LET r == change_orders(subactions_list, parameters[i].name, parameters[i].paths,
                                given[parameters[i].name], 1)
         IN IF r.raised # "none" THEN r
            ELSE substitute(r.list, parameters, given, i + 1)

\* the subactions of one invocation, named <template>_<index>
compiled(template_name, list, action_index) ==
    [i \in 1..Len(list) |->
        [id |-> <<template_name, action_index + i - 1>>, params |-> list[i].params]]

\* load_actions for the invocations of one parametrized template, from
\* invocation i on: each works on deepcopy(template.get("actions")), and the
\* index of param_action_template_indexes goes on counting
RECURSIVE load_parametrized(_, _, _, _, _)
load_parametrized(template_name, template, invocations, i, action_index) ==
    IF i > Len(invocations) THEN [raised |-> "none", actions |-> <<>>, template |-> template]
    ELSE LET r == substitute(template.actions, template.parameters,
                             invocations[i].parameters, 1)
             rest == load_parametrized(template_name, template, invocations, i + 1,
                                       action_index + Len(template.actions))
         IN IF r.raised # "none"
            THEN [raised |-> r.raised, actions |-> <<>>, template |-> template]
            ELSE [raised |-> rest.raised,
                  actions |-> <<compiled(template_name, r.list, action_index)>> \o rest.actions,
                  template |-> rest.template]

ActionsCall(template, invocations) ==
    [function |-> "load_actions", template |-> template, invocations |-> invocations]

call_load_actions ==
    /\ load_in.function = "load_actions"
    /\ ~load_out.done
    /\ \E r \in {load_parametrized("tpl", load_in.template, load_in.invocations, 1, 1)} :
           load_out' = [done |-> TRUE, raised |-> r.raised, actions |-> r.actions,
                        template |-> r.template]
    /\ UNCHANGED <<load_in, perf_vars, peer_vars, match_vars, loop_vars, core_vars>>

\* the texts of a template: the placeholder alone, inside a string, twice, a
\* string without it, and a number
TextValues ==
    {StrValue(<<"$", "n">>), StrValue(<<"a", "$", "n">>), StrValue(<<"$", "n", "$", "n">>),
     StrValue(<<"b">>), IntValue(7)}

\* templates of two subactions with a text each and the parameter n, declared
\* at the first text, at the second, at both, or at a field that is not there
SubactionDict(text) == [target |-> "internal", cmd |-> "print", params |-> [text |-> text]]
ParameterPaths ==
    {JsonPath(FALSE, 0, "text"), JsonPath(FALSE, 1, "text"), JsonPath(TRUE, 0, "text"),
     JsonPath(FALSE, 0, "speed")}
Templates ==
    {[actions |-> <<SubactionDict(t1), SubactionDict(t2)>>,
      parameters |-> <<[name |-> <<"n">>, paths |-> <<path>>]>>] :
        t1 \in TextValues, t2 \in TextValues, path \in ParameterPaths}

\* the values an invocation gives n
GivenValues == {IntValue(5), IntValue(12), StrValue(<<"x">>)}
Invocations ==
    {<<[parameters |-> (<<"n">> :> v1)], [parameters |-> (<<"n">> :> v2)]>> :
        v1 \in GivenValues, v2 \in GivenValues}

ActionsInit ==
    /\ load_in \in {ActionsCall(t, i) : t \in Templates, i \in Invocations}
    /\ load_out = NotRun

----------------------------------------------------------------------------
(* _matches_event_string on its own: every pattern and value up to MaxStrLen *)

Chars == {"a", "n", "y", "|"}

RECURSIVE StringsUpTo(_)
StringsUpTo(n) ==
    IF n = 0 THEN {<<>>}
    ELSE LET shorter == StringsUpTo(n - 1)
         IN shorter \cup {Append(t, ch) : t \in shorter, ch \in Chars}

MatchInit ==
    /\ m_expected \in StringsUpTo(MaxStrLen)
    /\ m_value \in StringsUpTo(MaxStrLen) \cup {NoneVal}
    /\ m_result = FALSE
    /\ m_pc = "call"

MatchIdle ==
    /\ m_expected = <<>>
    /\ m_value = <<>>
    /\ m_result = FALSE
    /\ m_pc = "call"

MatchCall ==
    /\ m_pc = "call"
    /\ m_result' = _matches_event_string(m_expected, m_value)
    /\ m_pc' = "return"
    /\ UNCHANGED <<m_expected, m_value, perf_vars, peer_vars, core_vars, load_vars, loop_vars>>

----------------------------------------------------------------------------
(* Performance._matches_event_trigger on its own: one trigger, the trigger  *)
(* that differs from it only in the inverted flag of one rule, one event    *)

TriggerCall(event_trigger, rule, component_type, event, params) ==
    [function |-> "_matches_event_trigger", event_trigger |-> event_trigger, rule |-> rule,
     component_type |-> component_type, event |-> event, params |-> params]

\* the trigger with the inverted flag of its rule k flipped
Flipped(event_trigger, k) == [event_trigger EXCEPT !.params[k].inverted = ~@]

call_matches_event_trigger ==
    /\ load_in.function = "_matches_event_trigger"
    /\ ~load_out.done
    /\ load_out' =
           [done |-> TRUE,
            result |-> _matches_event_trigger(load_in.event_trigger, load_in.component_type,
                                              load_in.event, load_in.params),
            flipped |-> _matches_event_trigger(Flipped(load_in.event_trigger, load_in.rule),
                                               load_in.component_type, load_in.event,
                                               load_in.params)]
    /\ UNCHANGED <<load_in, perf_vars, peer_vars, match_vars, loop_vars, core_vars>>

\* the rules a trigger is given: one or two, over two parameter names
Rules ==
    {ParamRule(n, e, inv) : n \in ParamNames, e \in {AnyStr, <<"x">>, <<"x", "|", "y">>},
                            inv \in BOOLEAN}
RuleLists == {<<r>> : r \in Rules} \cup {<<r1, r2>> : r1 \in Rules, r2 \in Rules}

TriggerInit ==
    /\ load_in \in {TriggerCall(EventTrigger("media", e, rules, <<"t">>), k, ct, ev, ps) :
                       e \in {AnyStr, <<"e", "|", "f">>}, rules \in RuleLists, k \in 1..2,
                       ct \in ComponentTypes, ev \in EventNames, ps \in ParamMaps}
    /\ load_in.rule <= Len(load_in.event_trigger.params)
    /\ load_out = NotRun

----------------------------------------------------------------------------
(* A performance of the opus that was loaded: main.py builds the Performance *)
(* from the Opus load_opus returns, after validate_references has run on it  *)

\* node tables over the IDs a and b whose nodes may also point at c, not declared
WalkTables ==
    UNION {[D -> {Node(nxt, <<>>) : nxt \in NextOptions}] : D \in SUBSET {"a", "b"} \ {{}}}

WalkInit ==
    /\ opus_file = "loaded.yaml"
    /\ load_in \in {ValidateCall(LoadedOpus(nodes, "a", EmptyDict, {"script"}, <<>>), e) :
                       nodes \in WalkTables, e \in BOOLEAN}
    /\ load_out = NotRun
    /\ history = <<opus.start_node>>
    /\ pre = <<opus.start_node>>
    /\ op = Call("none", "__init__")
    /\ emitted = <<>>
    /\ ui = UI(PerformanceHistory)

\* validate_references returned: sys.exit(1) was not called
Started == load_out.done /\ ~load_out.exited

----------------------------------------------------------------------------
(* UI connections: peers/ui.py handle_socket, one task of the event loop per *)
(* connection.  A task runs alone from one await to the next.                *)

LoopIdle ==
    /\ ui_websockets = <<>>
    /\ task = [c \in Conns |-> <<>>]
    /\ storages_random_cmds = EmptyDict

\* how a connection of a UI ends: the iteration over the websocket returns when
\* the peer closed it in order, and raises ConnectionClosedError when it was lost
Closings == {"ConnectionClosedOK", "ConnectionClosedError"}

\* socket_listener hands a connection of client type "ui" to UI.handle_socket, which
\* appends it and sends the handshake; a send on a connection that is already gone
\* raises and ends the task
ui_handle_socket(c, handshake_sent) ==
    /\ client[c] = "new"
    /\ ui_websockets' = Append(ui_websockets, c)
    /\ client' = [client EXCEPT ![c] = IF handshake_sent THEN "ui" ELSE "closed"]
    /\ core_op' = CoreOp("ui.handle_socket", c, "",
                         IF handshake_sent THEN "none" ELSE "ConnectionClosedError")
    /\ core_trace' = <<>>
    /\ UNCHANGED <<components, task, storages_random_cmds,
                   perf_vars, peer_vars, match_vars, load_vars>>

\* the connection ends while its task waits for a message: the statement after the
\* loop removes the socket, and an exception out of the loop never reaches it
ui_socket_closed(c, closing) ==
    /\ client[c] = "ui"
    /\ task[c] = <<>>
    /\ ui_websockets' = IF closing = "ConnectionClosedOK"
                        THEN list_remove(ui_websockets, c)
                        ELSE ui_websockets
    /\ client' = [client EXCEPT ![c] = "closed"]
    /\ core_op' = CoreOp("ui.closed", c, "",
                         IF closing = "ConnectionClosedOK" THEN "none" ELSE closing)
    /\ core_trace' = <<>>
    /\ UNCHANGED <<components, task, storages_random_cmds,
                   perf_vars, peer_vars, match_vars, load_vars>>

\* a handler whose every statement awaits
awaits_after_every_step(step) == TRUE

\* whether the task gives the event loop a turn after a statement of a handler: the
\* listeners of the UI's messages, the engine's methods, emit and broadcast are
\* plain functions, so the body of the loop holds no await
awaits(step) == FALSE

\* the statements one call of the engine runs, in order: each notification with the
\* dispatch of its listeners, and the history the engine holds after it
Steps(r) ==
    [i \in 1..Len(r.events) |->
        [event |-> r.events[i],
         after |-> IF i < Len(r.events) THEN r.events[i + 1].seen ELSE r.history]]

\* the last statement of code the task runs before the event loop gets a turn
RECURSIVE run_until_await(_, _)
run_until_await(code, i) ==
    IF i >= Len(code) THEN Len(code)
    ELSE IF awaits(code[i]) THEN i
    ELSE run_until_await(code, i + 1)

\* one turn of the task of connection c: it takes message a from the socket, or goes
\* on where it was, and runs until it awaits
ui_task_turn(c, a) ==
    /\ client[c] = "ui"
    /\ \E r \in {Invoke(a.method, a, history)} :
       \E code \in {IF task[c] = <<>> THEN Steps(r) ELSE task[c]} :
       \E n \in {run_until_await(code, 1)} :
          /\ history' = IF code = <<>> THEN r.history ELSE code[n].after
          /\ emitted' = [i \in 1..n |-> code[i].event]
          /\ ui' = ui_listener(ui, [i \in 1..n |-> code[i].event], 1)
          /\ task' = [task EXCEPT ![c] = SubSeq(code, n + 1, Len(code))]
          /\ pre' = history
          /\ op' = [a EXCEPT !.raised = r.raised]
          /\ core_op' = CoreOp("ui.message", c, "", r.raised)
          /\ core_trace' = <<>>
    /\ UNCHANGED <<opus_file, components, client, ui_websockets, storages_random_cmds,
                   peer_vars, match_vars, load_vars>>

UIConnect == \E c \in Conns, handshake_sent \in BOOLEAN : ui_handle_socket(c, handshake_sent)
UIClosed == \E c \in Conns, closing \in Closings : ui_socket_closed(c, closing)
\* the messages a UI sends here
UIMessages ==
    {[Call("next-node", "next_node") EXCEPT !.run_actions = run] : run \in BOOLEAN}
        \cup {Call("prev-node", "prev_node")}

UIMessage ==
    /\ Len(history) < MaxHistory
    /\ \E c \in Conns, a \in UIMessages : ui_task_turn(c, a)

----------------------------------------------------------------------------
(* Inline assets: opus.py, create_action_and_inline_assets and the normal    *)
(* and composite branches of load_actions.  Keys are strings, sequences of   *)
(* characters; an entry of an assets list is an asset ID or an inline dict.  *)

AssetRef(asset_id) == [inline |-> FALSE, id |-> asset_id, path |-> ""]
InlineAsset(path) == [inline |-> TRUE, id |-> <<>>, path |-> path]

\* f"{key}_asset_{i}"
inline_asset_id(key, i) == key \o <<"_", "a", "s", "s", "e", "t", "_">> \o str(IntValue(i))

\* f"{key}_{action_index}"
subaction_key(key, action_index) == key \o <<"_">> \o str(IntValue(action_index))

\* the loop of create_action_and_inline_assets over enumerate(assets), from
\* position i (counted from 1 here, from 0 in the ID) on
RECURSIVE inline_assets(_, _, _, _)
inline_assets(entries, key, assets, i) ==
    IF i > Len(entries) THEN [entries |-> entries, assets |-> assets]
    ELSE IF entries[i].inline
    THEN inline_assets([entries EXCEPT ![i] = AssetRef(inline_asset_id(key, i - 1))], key,
                       dict_set(assets, inline_asset_id(key, i - 1), entries[i]), i + 1)
    ELSE inline_assets(entries, key, assets, i + 1)

create_action_and_inline_assets(action_dict, key, assets) ==
    LET r == inline_assets(action_dict.assets, key, assets, 1)
    IN [action |-> [id |-> key, assets |-> [i \in DOMAIN r.entries |-> r.entries[i].id],
                    subactions |-> <<>>],
        assets |-> r.assets]

\* the loop over the subactions of a composite action, from subaction i on
RECURSIVE load_subactions(_, _, _, _, _)
load_subactions(action_data, key, assets, i, subactions) ==
    IF i > Len(action_data) THEN [subactions |-> subactions, assets |-> assets]
    ELSE LET r == create_action_and_inline_assets(action_data[i], subaction_key(key, i), assets)
         IN load_subactions(action_data, key, r.assets, i + 1, Append(subactions, r.action))

\* load_actions for normal and composite actions: the loop over the items of
\* actions_dict, from item i on
RECURSIVE load_actions(_, _, _, _)
load_actions(actions_dict, i, actions, assets) ==
    IF i > Len(actions_dict) THEN [actions |-> actions, assets |-> assets]
    ELSE LET key == actions_dict[i].key
             data == actions_dict[i].data
         IN IF data.composite
            THEN LET r == load_subactions(data.subactions, key, assets, 1, <<>>)
                 IN load_actions(actions_dict, i + 1,
                                 dict_set(actions, key,
                                          [id |-> key, assets |-> <<>>, subactions |-> r.subactions]),
                                 r.assets)
            ELSE LET r == create_action_and_inline_assets(data, key, assets)
                 IN load_actions(actions_dict, i + 1, dict_set(actions, key, r.action), r.assets)

\* load_opus: the asset table is the dict of the declared assets followed by the
\* inlined ones, each loaded under its key
load_asset_table(declared, inlined_assets_dict) ==
    LET all == dict_update(declared, inlined_assets_dict)
    IN [key \in DOMAIN all |-> all[key].path]

InlineCall(actions_dict, declared) ==
    [function |-> "load_actions and assets", actions_dict |-> actions_dict, declared |-> declared]

call_load_inline ==
    /\ load_in.function = "load_actions and assets"
    /\ ~load_out.done
    /\ \E r \in {load_actions(load_in.actions_dict, 1, EmptyDict, EmptyDict)} :
           load_out' = [done |-> TRUE, actions |-> r.actions, inlined |-> r.assets,
                        assets |-> load_asset_table(load_in.declared, r.assets)]
    /\ UNCHANGED <<load_in, perf_vars, peer_vars, match_vars, loop_vars, core_vars>>

\* the action keys and the assets lists of the opuses loaded here
ActionKeys == {<<"a">>, <<"a", "_", "1">>}
InlineLists ==
    {<<>>, <<InlineAsset("p.png")>>, <<InlineAsset("q.png")>>, <<AssetRef(<<"x">>)>>,
     <<AssetRef(<<"x">>), InlineAsset("q.png")>>}
NormalActions == {[composite |-> FALSE, assets |-> l, subactions |-> <<>>] : l \in InlineLists}
SubactionLists ==
    {<<[assets |-> l]>> : l \in InlineLists}
        \cup {<<[assets |-> l1], [assets |-> l2]>> : l1 \in InlineLists, l2 \in InlineLists}
CompositeActions == {[composite |-> TRUE, assets |-> <<>>, subactions |-> s] : s \in SubactionLists}
ActionData == NormalActions \cup CompositeActions
InlineActionDicts ==
    {<<[key |-> k, data |-> d]>> : k \in ActionKeys, d \in ActionData}
        \cup {<<[key |-> ks[1], data |-> d1], [key |-> ks[2], data |-> d2]>> :
                 ks \in {ks \in ActionKeys \X ActionKeys : ks[1] # ks[2]},
                 d1 \in ActionData, d2 \in ActionData}

\* the declared assets: x alone, or x and an asset named like an inline one
DeclaredTables ==
    {(<<"x">> :> [path |-> "x.png"]),
     (<<"x">> :> [path |-> "x.png"])
        @@ (<<"a", "_", "a", "s", "s", "e", "t", "_", "0">> :> [path |-> "mine.png"])}

InlineInit ==
    /\ load_in \in {InlineCall(d, t) : d \in InlineActionDicts, t \in DeclaredTables}
    /\ load_out = NotRun

----------------------------------------------------------------------------
(* MediaPeer.handle_action, cmd create_random: peers/media.py.  An entry of   *)
(* a storage's list is a path, a string, or an Asset object.                  *)

PathEntry(path) == [object |-> "str", path |-> path]
AssetEntry(asset) == [object |-> "Asset", path |-> asset.path]

\* a.path not in self._storages_random_cmds[storage_id]: a string equals no Asset
path_in(path, chosen) == \E i \in DOMAIN chosen : chosen[i] = PathEntry(path)

\* list(map(lambda a: a.path, filter(lambda a: a.path not in chosen, assets)))
available_paths(assets, chosen) ==
    LET kept == SelectSeq(assets, LAMBDA a : ~path_in(a.path, chosen))
    IN [i \in DOMAIN kept |-> PathEntry(kept[i].path)]

\* assets.copy()
assets_copy(assets) == [i \in DOMAIN assets |-> AssetEntry(assets[i])]

\* json.dumps(data): raises TypeError for an object that is no JSON value
json_dumps_raises(data) == data["asset"].object = "Asset"

\* handle_action(target_type, "create_random", assets, params), where random.choice
\* takes the element at position pick (taken modulo the length of the list)
media_create_random(storages, target_type, assets, params, pick) ==
    LET storage_id == params["storageId"]
        given == "entityId" \in DOMAIN params
        entityId == IF given THEN params["entityId"] ELSE RandomString
        chosen == IF storage_id \in DOMAIN storages THEN storages[storage_id] ELSE <<>>
        filtered == available_paths(assets, chosen)
        available_assets == IF filtered = <<>> THEN assets_copy(assets) ELSE filtered
        kept == IF filtered = <<>> THEN <<>> ELSE chosen
        random_asset == available_assets[(pick % Len(available_assets)) + 1]
        data == dict_update([command |-> "create", entityId |-> entityId, channel |-> 1,
                             type |-> target_type, asset |-> random_asset], params)
    IN [storages |-> dict_set(storages, storage_id, Append(kept, random_asset)),
        raised |-> IF json_dumps_raises(data) THEN "TypeError" ELSE "none",
        data |-> data]

MediaCall(target_type, cmd, assets, params) ==
    [function |-> "MediaPeer.handle_action", target_type |-> target_type, cmd |-> cmd,
     assets |-> assets, params |-> params]

\* one create_random action run by Core._run_action: what handle_action raises is
\* caught there, and nothing is sent then
call_media_create_random(assets, params, pick) ==
    /\ \E r \in {media_create_random(storages_random_cmds, "image", assets, params, pick)} :
          /\ storages_random_cmds' = r.storages
          /\ load_out' = [done |-> TRUE, raised |-> r.raised,
                          sent |-> IF r.raised = "none" THEN <<r.data>> ELSE <<>>]
    /\ load_in' = MediaCall("image", "create_random", assets, params)
    /\ UNCHANGED <<ui_websockets, task, perf_vars, peer_vars, match_vars, core_vars>>

\* the create_random actions of the opus: one on storage s over two images, one on
\* storage t over three
RandomActions ==
    {[assets |-> <<Asset("a.png", NoData), Asset("b.png", NoData)>>,
      params |-> [storageId |-> "s"]],
     [assets |-> <<Asset("a.png", NoData), Asset("b.png", NoData), Asset("c.png", NoData)>>,
      params |-> [storageId |-> "t"]]}
MaxPick == 2

CreateRandom ==
    \E action \in RandomActions, pick \in 0..MaxPick :
        call_media_create_random(action.assets, action.params, pick)

PerfIdle ==
    /\ opus_file = "linear.yaml"
    /\ history = <<opus.start_node>>
    /\ pre = <<opus.start_node>>
    /\ op = Call("none", "__init__")
    /\ emitted = <<>>
    /\ ui = UI(PerformanceHistory)

----------------------------------------------------------------------------
(* The specifications *)

\* the Performance engine under operator commands and component events
Init == PerfInit /\ PeerIdle /\ MatchIdle /\ LoopIdle /\ CoreInit /\ LoadIdle
Next ==
    \/ UINextNode
    \/ UIPrevNode
    \/ UIGotoNode
    \/ UIRunActions
    \/ UIChoosePath
    \/ ComponentEvent
Spec == Init /\ [][Next]_vars

\* one category's registry under connects, component_info messages and disconnects
PeerSpecInit == PerfIdle /\ PeerIdle /\ MatchIdle /\ LoopIdle /\ CoreInit /\ LoadIdle
PeerSpecNext ==
    \/ Accept
    \/ SendCommand
    \/ ComponentInfoMsg
    \/ Closed
PeerSpec == PeerSpecInit /\ [][PeerSpecNext]_vars

\* one category's registry under connects, registrations and disconnects, with
\* targeted sends whose thread runs beside the event loop
ThreadSpecInit == PerfIdle /\ PeerIdle /\ MatchIdle /\ LoopIdle /\ CoreInit /\ LoadIdle
ThreadSpecNext ==
    \/ Accept
    \/ ComponentInfoMsg
    \/ Closed
    \/ ResetComponent
    \/ ThreadRead
    \/ ThreadSend
ThreadSpec == ThreadSpecInit /\ [][ThreadSpecNext]_vars

\* the message loops of one category's connections under well-formed and
\* malformed messages
MessageSpecInit == PerfIdle /\ PeerIdle /\ MatchIdle /\ LoopIdle /\ CoreInit /\ LoadIdle
MessageSpecNext ==
    \/ Accept
    \/ Message
MessageSpec == MessageSpecInit /\ [][MessageSpecNext]_vars

\* the engine with Core's listeners attached, while component clients connect
ShowSpecInit == ShowInit /\ PeerIdle /\ MatchIdle /\ LoopIdle /\ CoreInit /\ LoadIdle
ShowSpecNext ==
    \/ Connect
    \/ OperatorNextNode
    \/ OperatorChoosePath
ShowSpec == ShowSpecInit /\ [][ShowSpecNext]_vars

\* validate_references on its own, over families of opuses
ValidateSpecInit == PerfIdle /\ PeerIdle /\ MatchIdle /\ LoopIdle /\ CoreInit /\ ValidateInit
ValidateSpecNext == call_validate_references
ValidateSpec == ValidateSpecInit /\ [][ValidateSpecNext]_vars

\* startup: load_opus and the distribution of the assets
LoadSpecInit == PerfIdle /\ PeerIdle /\ MatchIdle /\ LoopIdle /\ CoreInit /\ LoadInit
LoadSpecNext ==
    \/ call_load_opus
    \/ call_distribute_assets
LoadSpec == LoadSpecInit /\ [][LoadSpecNext]_vars

\* load_actions on its own, over parametrized templates and their invocations
ActionsSpecInit == PerfIdle /\ PeerIdle /\ MatchIdle /\ LoopIdle /\ CoreInit /\ ActionsInit
ActionsSpecNext == call_load_actions
ActionsSpec == ActionsSpecInit /\ [][ActionsSpecNext]_vars

\* _matches_event_trigger on a trigger and on its twin with one rule inverted
TriggerSpecInit == PerfIdle /\ PeerIdle /\ MatchIdle /\ LoopIdle /\ CoreInit /\ TriggerInit
TriggerSpecNext == call_matches_event_trigger
TriggerSpec == TriggerSpecInit /\ [][TriggerSpecNext]_vars

\* validation of an opus, then the Performance engine on it under operator commands
WalkSpecInit == WalkInit /\ PeerIdle /\ MatchIdle /\ LoopIdle /\ CoreInit
WalkSpecNext ==
    \/ call_validate_references
    \/ Started /\ UINextNode
    \/ Started /\ UIPrevNode
    \/ Started /\ UIRunActions
    \/ Started /\ UIChoosePath
WalkSpec == WalkSpecInit /\ [][WalkSpecNext]_vars

\* the inventory registry under connects, component_info, achievements and disconnects
InventorySpecInit == PerfIdle /\ PeerIdle /\ MatchIdle /\ LoopIdle /\ CoreInit /\ LoadIdle
InventorySpecNext ==
    \/ Accept
    \/ InventoryInfoMsg
    \/ AchievementReachedMsg
    \/ Closed
InventorySpec == InventorySpecInit /\ [][InventorySpecNext]_vars

\* the connections of UIs, their messages and their ends
UISpecInit == ShowInit /\ PeerIdle /\ MatchIdle /\ LoopIdle /\ CoreInit /\ LoadIdle
UISpecNext ==
    \/ UIConnect
    \/ UIMessage
    \/ UIClosed
UISpec == UISpecInit /\ [][UISpecNext]_vars

\* compiling actions with inline assets
InlineSpecInit == PerfIdle /\ PeerIdle /\ MatchIdle /\ LoopIdle /\ CoreInit /\ InlineInit
InlineSpecNext == call_load_inline
InlineSpec == InlineSpecInit /\ [][InlineSpecNext]_vars

\* create_random actions on the media peer
MediaSpecInit == PerfIdle /\ PeerIdle /\ MatchIdle /\ LoopIdle /\ CoreInit /\ LoadIdle
MediaSpecNext == CreateRandom
MediaSpec == MediaSpecInit /\ [][MediaSpecNext]_vars

\* one category's registry under connects and checksum reports
SyncSpecInit == PerfIdle /\ PeerInit /\ MatchIdle /\ LoopIdle /\ CoreInit /\ LoadIdle
SyncSpecNext ==
    \/ Accept
    \/ AcceptFails
    \/ FileChecksumsMsg
SyncSpec == SyncSpecInit /\ [][SyncSpecNext]_vars

\* the core under connects and disconnects of components of two categories and
\* the dispatch of actions
CoreSpecInit == PerfIdle /\ PeerIdle /\ MatchIdle /\ LoopIdle /\ CoreInit /\ LoadIdle
CoreSpecNext ==
    \/ Connect
    \/ Disconnect
    \/ RunActionById
CoreSpec == CoreSpecInit /\ [][CoreSpecNext]_vars

\* the pattern matching rule applied to every bounded pattern and value
MatchSpecInit == PerfIdle /\ PeerIdle /\ MatchInit /\ LoopIdle /\ CoreInit /\ LoadIdle
MatchSpecNext == MatchCall
MatchSpec == MatchSpecInit /\ [][MatchSpecNext]_vars

----------------------------------------------------------------------------
(* What the claims say, stated on the last call (op), the history before it  *)
(* (pre), the history after it and the notifications it emitted              *)

\* the node the call found current, when it is declared
CurrentDeclared == Last(pre) \in DOMAIN opus.nodes
CurrentNode == opus.nodes[Last(pre)]
AtLinearNode == CurrentDeclared /\ CurrentNode.next.kind = "str"
AtChoicePoint == CurrentDeclared /\ CurrentNode.next.kind = "list"

\* the positions of emitted that hold a notification of this name
Positions(name) == {i \in 1..Len(emitted) : emitted[i].name = name}

\* emitted[from + 1 .. from + Len(actions)] are the run-action notifications of
\* actions, in order, each emitted while history was still h
RunActionsAt(from, actions, h) ==
    /\ Len(emitted) >= from + Len(actions)
    /\ \A i \in 1..Len(actions) :
           /\ emitted[from + i].name = "run-action"
           /\ emitted[from + i].arg = <<actions[i]>>
           /\ emitted[from + i].seen = h

\* the last notification is history-changed, carrying the history as it now is
EndsWithHistoryChanged ==
    /\ Len(emitted) >= 1
    /\ emitted[Len(emitted)].name = "history-changed"
    /\ emitted[Len(emitted)].arg = history
    /\ emitted[Len(emitted)].seen = history

\* C1: next_node at a linear node appends exactly the node's successor and emits
\* exactly one history-changed; repeated on a linear graph it walks the successors,
\* around a cycle too
C1_NextNodeAppendsSuccessor ==
    (op.method = "next_node" /\ AtLinearNode) =>
        /\ history = pre \o <<CurrentNode.next.node>>
        /\ Cardinality(Positions("history-changed")) = 1
        /\ EndsWithHistoryChanged

\* the third next_node of the scenario: back at 11 after 11, 160, 1126
C1_Witness ==
    /\ op.method = "next_node"
    /\ pre = <<"11", "160", "1126">>
    /\ history = <<"11", "160", "1126", "11">>

\* C2: history is never empty; prev_node removes exactly the last entry and emits
\* history-changed when there is more than one entry, and does nothing at length 1
C2_HistoryNeverEmpty ==
    /\ Len(history) >= 1
    /\ op.method = "prev_node" =>
           IF Len(pre) > 1
           THEN /\ history = SubSeq(pre, 1, Len(pre) - 1)
                /\ Len(emitted) = 1
                /\ EndsWithHistoryChanged
           ELSE /\ history = pre
                /\ emitted = <<>>

\* prev_node called with the start node alone in history
C2_Witness ==
    /\ op.method = "prev_node"
    /\ Len(pre) = 1
    /\ history = pre

\* C3: a successful next_node with run_actions emits one run-action per entry of the
\* current node's action list, in list order, all of them before the append and
\* before history-changed; without run_actions it emits no run-action
C3_NextNodeRunsActionsFirst ==
    (op.method = "next_node" /\ AtLinearNode) =>
        IF op.run_actions
        THEN /\ RunActionsAt(0, CurrentNode.actions, pre)
             /\ Len(emitted) = Len(CurrentNode.actions) + 1
             /\ EndsWithHistoryChanged
        ELSE Positions("run-action") = {}

\* next_node with run_actions at a node that lists the same action twice
C3_Witness ==
    /\ op.method = "next_node"
    /\ op.run_actions
    /\ AtLinearNode
    /\ CurrentNode.actions = <<"a2", "a2">>
    /\ Len(emitted) = 3

\* C4: next_node at a choice point changes nothing and emits nothing, with
\* run_actions too
C4_NextNodeAtChoiceIsNoOp ==
    (op.method = "next_node" /\ AtChoicePoint) =>
        /\ history = pre
        /\ emitted = <<>>

\* next_node with run_actions at a choice point whose node has actions
C4_Witness ==
    /\ op.method = "next_node"
    /\ op.run_actions
    /\ AtChoicePoint
    /\ CurrentNode.actions # <<>>

\* the call is a choose_path at a choice point with an index of one of its choices
ValidChoice ==
    /\ AtChoicePoint
    /\ 0 <= op.choice_index
    /\ op.choice_index < Len(CurrentNode.next.choices)

\* C5: choose_path changes state only at a choice point with a valid index; at a
\* linear node, or with a negative or too large index, history is unchanged and
\* nothing is emitted; with a valid index the chosen node is appended
C5_ChoosePathOnlyWhenValid ==
    op.method = "choose_path" =>
        IF ValidChoice
        THEN history = pre \o <<CurrentNode.next.choices[op.choice_index + 1].node>>
        ELSE /\ history = pre
             /\ emitted = <<>>

\* choose_path with run_actions and the first index past the choices
C5_Witness ==
    /\ op.method = "choose_path"
    /\ op.run_actions
    /\ AtChoicePoint
    /\ op.choice_index = Len(CurrentNode.next.choices)

\* C6: a valid choose_path with run_actions emits the current node's actions, then
\* the chosen choice's actions, each in list order, all before the append and before
\* history-changed, and nothing of the other choices
C6_ChoosePathActionOrder ==
    (op.method = "choose_path" /\ ValidChoice /\ op.run_actions) =>
        LET choice == CurrentNode.next.choices[op.choice_index + 1]
        IN /\ RunActionsAt(0, CurrentNode.actions, pre)
           /\ RunActionsAt(Len(CurrentNode.actions), choice.actions, pre)
           /\ Len(emitted) = Len(CurrentNode.actions) + Len(choice.actions) + 1
           /\ EndsWithHistoryChanged

\* the second choice taken with run_actions: a1 a2 of the node, c2 c1 of the choice
C6_Witness ==
    /\ op.method = "choose_path"
    /\ op.run_actions
    /\ ValidChoice
    /\ op.choice_index = 1
    /\ Len(emitted) = 5

\* C7: the operator command goto-node is routed to goto_node, which appends a
\* declared node ID and emits history-changed, and leaves history unchanged for an
\* ID that is not in the node table
C7_GotoNode ==
    op.msg = "goto-node" =>
        /\ op.method = "goto_node"
        /\ IF op.node \in DOMAIN opus.nodes
           THEN /\ history = pre \o <<op.node>>
                /\ Len(emitted) = 1
                /\ EndsWithHistoryChanged
           ELSE history = pre

\* goto-node to a declared node that is not the successor of the current one
C7_Witness ==
    /\ op.msg = "goto-node"
    /\ pre = <<"11">>
    /\ history = <<"11", "1126">>

\* the pieces of pattern p that its "|"s separate: each stretch without "|" that
\* reaches, on either side, an end of p or a "|" (an empty stretch included)
Alternatives(p) ==
    { SubSeq(p, ij[1], ij[2]) :
        ij \in { b \in (1..(Len(p) + 1)) \X (0..Len(p)) :
                    /\ b[2] >= b[1] - 1
                    /\ \A k \in b[1]..b[2] : p[k] # "|"
                    /\ (b[1] = 1 \/ p[b[1] - 1] = "|")
                    /\ (b[2] = Len(p) \/ p[b[2] + 1] = "|") } }

\* the matching rule of a pattern against a value (which may be absent, NoneVal)
PatternRule(p, v) ==
    IF p = AnyStr THEN v # NoneVal
    ELSE IF \E k \in 1..Len(p) : p[k] = "|" THEN v \in Alternatives(p)
    ELSE v = p

\* a parameter rule against the params of an event: the event carries the parameter
\* and the pattern's answer for its value, negated when the rule is inverted, is yes.
\* A rule on a parameter the event does not carry does not match, inverted or not
RuleMatches(rule, params) ==
    /\ rule.name \in DOMAIN params
    /\ PatternRule(rule.expression, params[rule.name]) # rule.inverted

\* the trigger's target is the category, its event pattern matches, every rule matches
TriggerMatches(t) ==
    /\ t.target = op.component_type
    /\ PatternRule(t.event, op.event)
    /\ \A i \in 1..Len(t.params) : RuleMatches(t.params[i], op.params)

\* the action IDs of the run-action notifications that name an action of trigger t,
\* in emission order (the triggers of the opuses share no action ID)
FiredFor(t) ==
    LET OfTrigger(e) == e.name = "run-action" /\ InList(e.arg[1], t.actions)
        fired == SelectSeq(emitted, OfTrigger)
    IN [i \in 1..Len(fired) |-> fired[i].arg[1]]

C9_PatternMatchingRule ==
    m_pc = "return" => m_result = PatternRule(m_expected, m_value)

\* the second alternative of a pattern with "|" matched
C9_Witness ==
    /\ m_pc = "return"
    /\ m_expected = <<"a", "|", "n">>
    /\ m_value = <<"n">>
    /\ m_result

\* C10 (as claimed): when a connection terminates, it is removed from the connection
\* set, its component ID is removed from the component map, and exactly one
\* disconnected notification is raised for that component ID
C10_DisconnectCleansUp ==
    peer_op.step = "closed" =>
        /\ peer_op.conn \notin Members(websockets)
        /\ peer_op.component_id # NoId =>
               /\ peer_op.component_id \notin DOMAIN infos
               /\ peer_emitted = <<DisconnectedEvent(peer_op.component_id)>>


\* C11: in every reachable state nof_instances() is the number of live connections
\* of the category, so it is 0 once every connection has terminated.  It is
\* not: a connection whose cleanup raised KeyError (see C10) stays in the
\* connection list and is counted for ever.
C11_NofInstancesIsLiveCount ==
    nof_instances = Cardinality(LiveConns)

\* C12: in every reachable state each entry of the component map belongs to a
\* live connection: the handle stored under a component ID is in the connection
\* list, and no entry stores the handle of a terminated connection.  It does
\* not hold: the cleanup deletes only the last component ID the connection sent.
C12_InfosBelongToLiveConnections ==
    \A component_id \in DOMAIN infos :
        /\ infos[component_id] \in Members(websockets)
        /\ infos[component_id] \notin TerminatedConns

\* the file messages among the messages of the last step
FilesSent == {peer_sent[i] : i \in {j \in 1..Len(peer_sent) : peer_sent[j].msg.command = "file"}}

HeldAssets == {RegistryAssets[i] : i \in 1..Len(RegistryAssets)}

\* the report of the last step gives this asset's path the held checksum
ReportedEqual(asset) ==
    /\ asset.path \in DOMAIN peer_op.arg
    /\ peer_op.arg[asset.path] = asset.checksum

\* C13: a peer that reports, for an asset's path, a checksum equal to the held
\* checksum is sent no file message for that asset in response to that report
C13_EqualChecksumNeverSent ==
    peer_op.step = "file_checksums" =>
        \A asset \in HeldAssets :
            ReportedEqual(asset) => \A sent \in FilesSent : sent.msg.path # asset.path

\* a report that has the held checksum of a.png and not that of b.mp3: b.mp3 is
\* sent, a.png is not
C13_Witness ==
    /\ peer_op.step = "file_checksums"
    /\ ReportedEqual(RegistryAssets[1])
    /\ ~ReportedEqual(RegistryAssets[3])
    /\ peer_sent = <<Out(peer_op.conn, FileMsg("b.mp3", <<"/", "w", "A", "Q", "I", "A", "=", "=">>))>>

\* C14 (as claimed): on a checksum report a file message (path, base64 content) is
\* sent for exactly the held assets whose content was preloaded, of any length,
\* and whose path is missing from the report or reported with another checksum.
\* It does not hold for a preloaded file of zero bytes.
C14_SyncSendsExactlyStalePreloaded ==
    peer_op.step = "file_checksums" =>
        {sent.msg : sent \in FilesSent}
          = {FileMsg(asset.path, b64encode(asset.data)) :
                asset \in {a \in HeldAssets : a.data # NoData /\ ~ReportedEqual(a)}}

\* the connections some component ID is registered for
Registered == {infos[component_id] : component_id \in DOMAIN infos}

\* the connections that got a message in the last step
Receivers == {peer_sent[i].to : i \in 1..Len(peer_sent)}

\* C16 (as claimed): a connection that has not sent component_info counts toward
\* nof_instances() but never receives a command dispatched to its category
C16_UnregisteredNeverReceives ==
    /\ LiveConns \subseteq Members(websockets)
    /\ peer_op.step = "send_command" => Receivers \subseteq Registered

\* C16 (amended): a connection that has not sent component_info counts toward
\* nof_instances() and receives every command broadcast to its category, like
\* the registered ones: send_command writes its data once to each live
\* connection of the connection list, in list order
C16_BroadcastReachesUnregistered ==
    /\ LiveConns \subseteq Members(websockets)
    /\ peer_op.step = "send_command" =>
           peer_sent = [i \in 1..Len(SelectSeq(websockets, LAMBDA c : c \in LiveConns)) |->
                           Out(SelectSeq(websockets, LAMBDA c : c \in LiveConns)[i], peer_op.arg)]

\* a command is broadcast while one live connection is registered and another is not
C16_Witness ==
    /\ peer_op.step = "send_command"
    /\ \E c \in LiveConns \ Registered : c \in Receivers
    /\ \E c \in LiveConns \cap Registered : c \in Receivers

\* the last operation of the core ran an action of the opus
RanAction == core_op.name = "_run_action_by_id" /\ core_op.action_id \in DOMAIN action_templates

\* the positions of the trace with an event of this kind
EventsOf(kind) == {i \in 1..Len(core_trace) : core_trace[i].kind = kind}

\* the handler call at position i returned, i.e. no failure is logged for it
HandlerReturned(i) ==
    ~(i < Len(core_trace) /\ core_trace[i + 1].kind = "failed")

RECURSIVE PreOrder(_)
RECURSIVE PreOrderOfList(_)
PreOrder(action) == <<action>> \o PreOrderOfList(action.subactions)
PreOrderOfList(actions) ==
    IF actions = <<>> THEN <<>>
    ELSE PreOrder(Head(actions)) \o PreOrderOfList(Tail(actions))

\* the registry an action's target belongs to, and whether it has instances
RegistryOf(action) == CHOOSE peer \in Members(Components) : handles_target(peer, action.target)
Dispatchable(action) == peer_nof_instances(components, RegistryOf(action)) > 0

\* the handler calls of the trace, in order
TraceCalls == SelectSeq(core_trace, LAMBDA e : e.kind = "handle_action")

\* the connections that got a send of this command from this registry after position i
ReceivedAfter(i, peer, cmd) ==
    {core_trace[j].to : j \in {k \in EventsOf("send") :
        k > i /\ core_trace[k].peer = peer /\ core_trace[k].data["command"] = cmd}}

TracePrints == SelectSeq(core_trace, LAMBDA e : e.kind = "print")

\* C20: firing a composite action dispatches the parent's own command first and
\* then each subaction in declaration order, depth-first: the handler calls of
\* the run are those of the action tree in pre-order (the actions whose
\* category has no instance left out; all of them unless an asset lookup cut
\* the run short, and then those before it), and door_1 = [print(open),
\* print(closed)] calls internal:print twice, for open and then for closed
C20_CompositeDispatchOrder ==
    RanAction =>
        LET expected == SelectSeq(PreOrder(action_templates[core_op.action_id]),
                                  LAMBDA a : Dispatchable(a))
        IN /\ Len(TraceCalls) <= Len(expected)
           /\ EventsOf("skipped") = {} => Len(TraceCalls) = Len(expected)
           /\ \A i \in 1..Len(TraceCalls) :
                  /\ TraceCalls[i].id = expected[i].id
                  /\ TraceCalls[i].target = expected[i].target
                  /\ TraceCalls[i].cmd = expected[i].cmd
           /\ core_op.action_id = "door_1" =>
                  /\ [i \in 1..Len(TraceCalls) |-> TraceCalls[i].cmd] = <<"nop", "print", "print">>
                  /\ TracePrints = <<PrintEvent("open"), PrintEvent("closed")>>

\* scene, whose first subaction is the composite door_1, is run while media and
\* inventory have connections: door_1's prints come before the sibling actions
C20_Witness ==
    /\ core_op.name = "_run_action_by_id"
    /\ core_op.action_id = "scene"
    /\ Len(components["media"]) > 0
    /\ Len(components["inventory"]) > 0
    /\ [i \in 1..Len(TraceCalls) |-> TraceCalls[i].id]
         = <<"scene", "door_1", "door_1_1", "door_1_2", "play_no_entity", "add_item", "play">>
    /\ core_trace[4] = PrintEvent("open")

\* C17 (as claimed): send_command_to(id, data) sends data only to the connection
\* registered under id at the moment of the send, does nothing when id is not
\* registered, in every interleaving of the call, whose send runs on a separate
\* thread, with a disconnect or a re-registration of id.  It does not hold: the
\* thread reads the component map itself, and sends later.
C17_TargetedSendReachesHolderOfId ==
    /\ (peer_op.step = "thread_send" /\ peer_sent # <<>>) =>
           /\ has_component(peer_op.component_id)
           /\ infos[peer_op.component_id] = peer_sent[1].to
    /\ (peer_op.step = "send_command_to" /\ peer_op.raised = "not registered") =>
           thread = NoThread

\* C18: on an established connection a message whose handling fails (invalid
\* JSON, missing messageType or field, handler exception) or whose type is
\* unknown does not terminate the connection and changes neither the connection
\* list nor the component map nor the connection's component ID; the connection
\* stays in its message loop
C18_FailedMessageKeepsConnection ==
    [][(/\ peer_op'.step = "message"
        /\ \/ peer_op'.raised # "none"
           \/ peer_op'.arg = [messageType |-> "unknown"]) =>
           /\ websockets' = websockets
           /\ infos' = infos
           /\ conn' = conn
           /\ conn'[peer_op'.conn].pc = "open"]_vars

\* a registered connection's message is handled, and notified, directly after a
\* message of that connection failed
C18_Witness ==
    /\ peer_op.step = "message"
    /\ peer_op.after_failure
    /\ peer_op.raised = "none"
    /\ peer_op.component_id # NoId
    /\ peer_emitted = <<LogMessageEvent(peer_op.component_id, "info", "m")>>

\* an action of the tree was attempted: its handler was called, or it was
\* reported as handled by nobody
Attempted(action) ==
    \E i \in 1..Len(core_trace) :
        \/ core_trace[i].kind = "handle_action" /\ core_trace[i].id = action.id
        \/ core_trace[i] = NotHandledEvent(action.id)

\* C21 (as claimed): an error while executing one action or subaction does not
\* stop the subactions that follow it: every action of the tree of a fired
\* composite is attempted, whatever happened to the parent and to the earlier
\* subactions.  It does not hold: a subaction whose asset ID is not in the asset
\* table raises KeyError before its dispatch loop, and the exception leaves the
\* loops over the subactions of all its ancestors.
C21_EverySubactionAttempted ==
    RanAction =>
        LET tree == PreOrder(action_templates[core_op.action_id])
        IN \A i \in 1..Len(tree) : Attempted(tree[i])

\* the actions that were warned about because no registry with a connection
\* serves their target: reported as not handled without a handler call
UnmatchedActions ==
    {core_trace[i].id : i \in {k \in EventsOf("not_handled") :
        \A j \in EventsOf("handle_action") : core_trace[j].id # core_trace[k].id}}

\* the actions a next_node or choose_path with run_actions fires at the node
\* it leaves, and the node it goes to
ActionsToFire ==
    CurrentNode.actions
    \o (IF op.method = "choose_path"
        THEN CurrentNode.next.choices[op.choice_index + 1].actions ELSE <<>>)
Successor ==
    IF op.method = "choose_path"
    THEN CurrentNode.next.choices[op.choice_index + 1].node ELSE CurrentNode.next.node

\* C22: when no connected peer matches the target of an action, the action is
\* only warned about and the performance continues: next_node or choose_path
\* with run_actions still fires every action of the node (and of the choice),
\* each of them is attempted by Core, the successor is appended to the history
\* and history-changed is emitted last
C22_UnmatchedActionOnlyWarned ==
    (/\ core_op.name = "listeners"
     /\ op.run_actions
     /\ \/ op.method = "next_node" /\ AtLinearNode
        \/ op.method = "choose_path" /\ ValidChoice
     /\ UnmatchedActions # {}) =>
        /\ op.raised = "none"
        /\ history = Append(pre, Successor)
        /\ Len(emitted) = Len(ActionsToFire) + 1
        /\ RunActionsAt(0, ActionsToFire, pre)
        /\ Last(emitted) = HistoryChangedEvent(history)
        /\ \A i \in 1..Len(ActionsToFire) : Attempted([id |-> ActionsToFire[i]])

\* next_node with run_actions at the first node while no component is connected:
\* play and add_item are warned about, door_1 prints, and the show is at node 2
C22_Witness ==
    /\ core_op.name = "listeners"
    /\ op.method = "next_node"
    /\ op.run_actions
    /\ pre = <<"1">>
    /\ history = <<"1", "2">>
    /\ UnmatchedActions = {"play", "add_item"}
    /\ TracePrints = <<PrintEvent("open"), PrintEvent("closed")>>

\* the node IDs reachable from start_node by following next and choice targets
Targets(o, n) ==
    IF n \notin DOMAIN o.nodes THEN {}
    ELSE IF o.nodes[n].next.kind = "str" THEN {o.nodes[n].next.node}
    ELSE IF o.nodes[n].next.kind = "list"
    THEN {o.nodes[n].next.choices[i].node : i \in 1..Len(o.nodes[n].next.choices)}
    ELSE {}
RECURSIVE ReachableFrom(_, _)
ReachableFrom(o, seen) ==
    LET more == seen \cup UNION {Targets(o, n) : n \in seen}
    IN IF more = seen THEN seen ELSE ReachableFrom(o, more)

\* validate_references ran and printed nothing for this category
Validated == load_in.function = "validate_references" /\ load_out.done
NoFinding(category) ==
    \A i \in 1..Len(load_out.report) : load_out.report[i].category # category

\* C23 (as claimed): for every opus that validate_references accepts without a
\* node finding, the node IDs reachable from start_node by following next and
\* choice targets are exactly the declared nodes.  It does not hold: the check
\* compares the declared nodes with the referenced ones, whoever refers to them.
C23_AcceptedNodesAreReachable ==
    (Validated /\ NoFinding("nodes")) =>
        ReachableFrom(load_in.opus, {load_in.opus.start_node}) = DOMAIN load_in.opus.nodes

\* the asset IDs the actions of the opus list, those of nested subactions
\* included, as load_asset's fill_targets_from_action finds them
AssetsOfTree(action) ==
    LET tree == PreOrder(action)
    IN UNION {Members(tree[i].assets) : i \in 1..Len(tree)}
AllReferencedAssets(o) ==
    UNION {AssetsOfTree(o.action_templates[a]) : a \in DOMAIN o.action_templates}

\* C24 (as claimed): validate_references reports no asset finding exactly when
\* the declared asset IDs are "script" and every asset ID an action refers to,
\* the references of nested subactions counted.  It does not hold: the check
\* reads the assets of the actions of the action table only, not those of
\* their subactions.
C24_AssetFindingIffMismatch ==
    (Validated /\ NoFinding("nodes")) =>
        (NoFinding("assets") <=>
            load_in.opus.assets = {"script"} \cup AllReferencedAssets(load_in.opus))

\* the action IDs a node, a choice or a shortcut lists
DirectlyReferredActions(o) ==
    UNION {Members(o.nodes[n].actions) : n \in DOMAIN o.nodes}
    \cup UNION {UNION {Members(o.nodes[n].next.choices[i].actions) :
                       i \in 1..Len(o.nodes[n].next.choices)} : n \in DOMAIN o.nodes}
    \cup UNION {Members(o.shortcuts[i].actions) : i \in 1..Len(o.shortcuts)}

\* those, and the declared actions found in the trees of the declared ones
ReferredActionsClosed(o) ==
    DirectlyReferredActions(o)
    \cup UNION {{PreOrder(o.action_templates[a])[i].id :
                    i \in 1..Len(PreOrder(o.action_templates[a]))}
                 \cap DOMAIN o.action_templates :
                a \in DirectlyReferredActions(o) \cap DOMAIN o.action_templates}

\* C25 (as claimed): validate_references reports no action finding exactly when
\* the declared action IDs are those a node, a choice or a shortcut lists
\* together with the declared actions reachable from them through subactions,
\* whichever of the three lists them.  It does not hold: only the actions of
\* nodes are followed into their subactions.
C25_ActionFindingIffMismatch ==
    (Validated /\ NoFinding("nodes") /\ NoFinding("assets")) =>
        (NoFinding("actions") <=>
            DOMAIN load_in.opus.action_templates = ReferredActionsClosed(load_in.opus))

\* the categories in which the opus has something to report
CategoriesAmiss(o) ==
    {category \in {"nodes", "assets", "actions", "hotkeys"} :
        \/ category = "nodes" /\ referred_nodes(o) # DOMAIN o.nodes
        \/ category = "assets" /\ referred_assets(o) # o.assets
        \/ category = "actions" /\ referred_actions(o) # DOMAIN o.action_templates
        \/ category = "hotkeys" /\ used_disallowed_hotkeys(o) # <<>>}

\* C26 (as claimed): validation is not short-circuited: every category that has
\* a mismatch is reported before validation ends, whether or not failures are
\* fatal, and the switch decides only whether the run exits.  It does not hold:
\* with exit_on_failure the run exits inside the first category that has a
\* mismatch.
C26_EveryCategoryReported ==
    Validated =>
        /\ \A category \in CategoriesAmiss(load_in.opus) : ~NoFinding(category)
        /\ load_out.exited <=> (load_in.exit_on_failure /\ CategoriesAmiss(load_in.opus) # {})

Loaded == load_in.function = "load_opus" /\ load_out.done

\* C27: loading an opus whose asset table has no "script" fails with a fatal
\* load error whatever exit_on_validation_failure and read_asset_data are: no
\* Opus is returned
C27_ScriptIsMandatory ==
    (Loaded /\ "script" \notin DOMAIN load_in.opus_dict.assets) =>
        /\ load_out.raised # "none"
        /\ load_out.opus = NoOpus

\* an opus file that is in order but for the script, loaded without asset data
\* and without fatal validation
C27_Witness ==
    /\ Loaded
    /\ DOMAIN load_in.opus_dict.assets = {"img"}
    /\ load_in.opus_dict.action_templates = ShowTable
    /\ load_in.opus_dict.ui # NoUi
    /\ ~load_in.read_asset_data
    /\ ~load_in.exit_on_validation_failure
    /\ load_out.raised = "KeyError"

Distributed == Loaded /\ load_out.raised = "none" /\ load_out.distributed

\* the actions of all trees of the action table
AllActions(templates) ==
    UNION {{PreOrder(templates[a])[i] : i \in 1..Len(PreOrder(templates[a]))} :
           a \in DOMAIN templates}

\* how many times the registry holds the asset of this key
TimesHeld(peer, key) ==
    Cardinality({i \in 1..Len(load_out.registry_assets[peer]) :
                    load_out.registry_assets[peer][i].key = key})

\* C29: after the distribution at startup a registry holds an asset, once,
\* exactly when some action of the action table, at any depth of subactions,
\* lists the asset and has a target the registry serves; it holds nothing else,
\* and an asset no action lists is held by no registry
C29_AssetsGoToServingRegistries ==
    Distributed =>
        \A peer \in Members(Components) :
            /\ \A key \in DOMAIN load_out.opus.assets :
                   TimesHeld(peer, key) =
                       IF \E action \in AllActions(load_out.opus.action_templates) :
                              /\ key \in Members(action.assets)
                              /\ handles_target(peer, action.target)
                       THEN 1 ELSE 0
            /\ \A i \in 1..Len(load_out.registry_assets[peer]) :
                   load_out.registry_assets[peer][i]
                       = load_out.opus.assets[load_out.registry_assets[peer][i].key]

\* the table with the nested composite: media holds the three assets its
\* subactions list, inventory holds the one its action lists, and the script
\* and the asset nobody lists are held by no registry
C29_Witness ==
    /\ Distributed
    /\ load_in.opus_dict.action_templates = NestedTable
    /\ DOMAIN load_out.opus.assets = {"script", "img", "snd", "url", "lone"}
    /\ [i \in 1..Len(load_out.registry_assets["media"]) |->
           load_out.registry_assets["media"][i].key] = <<"img", "snd", "url">>
    /\ [i \in 1..Len(load_out.registry_assets["inventory"]) |->
           load_out.registry_assets["inventory"][i].key] = <<"snd">>
    /\ \A peer \in {"internal", "ledController", "myggcheck"} :
           load_out.registry_assets[peer] = <<>>

ActionsLoaded == load_in.function = "load_actions" /\ load_out.done /\ load_out.raised = "none"

\* what the claim expects at a location whose template value is orig, for the
\* parameter n given as value
Substituted(orig, value) ==
    IF orig.type = "str" /\ str_contains(orig.chars, <<"$", "n">>)
    THEN StrValue(str_replace(orig.chars, <<"$", "n">>, str(value)))
    ELSE value

\* C28 (as claimed): for a template with parameter n declared at path P and an
\* invocation giving n = v, the compiled subaction's value at every location
\* that P matches is v when the template value there does not contain $n, and
\* that location's own template string with $n replaced by str(v) when it
\* does; the template's own list is not modified, so the second invocation is
\* not affected by the first.  It does not hold for a path that matches more
\* than one location: the value computed from the first match is written to
\* all of them.
C28_SubstitutionAtEveryMatch ==
    ActionsLoaded =>
        LET template == load_in.template
            path == template.parameters[1].paths[1]
            matched == find(path, template.actions)
        IN /\ load_out.template = template
           /\ \A k \in 1..Len(load_in.invocations) :
                  \A j \in 1..Len(matched) :
                      load_out.actions[k][matched[j]].params[path.field]
                          = Substituted(template.actions[matched[j]].params[path.field],
                                        load_in.invocations[k].parameters[<<"n">>])

\* the last call was one of these methods and emitted history-changed
HistoryChangedBy(methods) ==
    /\ op.method \in methods
    /\ \E i \in 1..Len(emitted) : emitted[i].name = "history-changed"

\* C30: the UI never holds a mutable reference to the Performance history.  What it
\* stores at construction and on each history-changed is a snapshot, so a next_node,
\* prev_node or choose_path changes the UI's stored history only through the
\* notification: when changed_history is entered the UI still holds the history as
\* it was before the call, and the list it names afterwards is another object than
\* Performance.history.
C30_UIHistoryIsASnapshot ==
    HistoryChangedBy({"next_node", "prev_node", "choose_path"}) =>
        /\ ui.found = pre
        /\ ui._history # PerformanceHistory

\* the call of _matches_event_trigger has returned
TriggerMatched ==
    /\ load_in.function = "_matches_event_trigger"
    /\ load_out.done

\* apart from rule k, the trigger matches the event: target, event pattern, other rules
MatchesButFor(t, k) ==
    /\ t.target = load_in.component_type
    /\ PatternRule(t.event, load_in.event)
    /\ \A i \in 1..Len(t.params) : i # k => RuleMatches(t.params[i], load_in.params)

\* C37: inverting a parameter rule negates its outcome.  Of two triggers that differ
\* only in the inverted flag of one rule, and whose target, event pattern and other
\* rules match an event, exactly one fires for that event, also when the event does
\* not carry the rule's parameter
C37_InvertedRuleNegates ==
    (TriggerMatched /\ MatchesButFor(load_in.event_trigger, load_in.rule)) =>
        load_out.result # load_out.flipped

\* the source would load if it had a ui section without shortcuts
LoadsWithEmptyUi ==
    load_opus([load_in.opus_dict EXCEPT !.ui = <<>>], load_in.read_asset_data,
              load_in.exit_on_validation_failure).raised = "none"

\* C32: an Opus source without a ui key loads successfully, and yields a UI
\* configuration with an empty shortcut list and no inlined UI actions: the action
\* table is the one of the source
C32_UiKeyIsOptional ==
    (Loaded /\ load_in.opus_dict.ui = NoUi /\ LoadsWithEmptyUi) =>
        /\ load_out.raised = "none"
        /\ load_out.opus.returned
        /\ load_out.opus.shortcuts = <<>>
        /\ load_out.opus.action_templates = load_in.opus_dict.action_templates

\* the action ID is not in the action table, or an action of its tree lists an
\* asset ID that is not in the asset table
Unresolved(action_id) ==
    \/ action_id \notin DOMAIN action_templates
    \/ LET tree == PreOrder(action_templates[action_id])
       IN \E i \in 1..Len(tree) :
              \E j \in 1..Len(tree[i].assets) : tree[i].assets[j] \notin DOMAIN OpusAssets

\* C38: running an action by ID is all-or-nothing with respect to unresolved
\* references.  If the action ID, or an asset ID of the action or of any of its
\* subactions, is missing from the Opus, the action is skipped as a whole: no handler
\* is called and no peer is sent a command for the action or any of its subactions
C38_UnresolvedActionSkippedAsAWhole ==
    (core_op.name = "_run_action_by_id" /\ Unresolved(core_op.action_id)) =>
        /\ core_trace = <<SkippedEvent(core_op.action_id)>>
        /\ EventsOf("handle_action") = {}
        /\ EventsOf("send") = {}

\* C36: for an Opus with no node finding in validation, every element of history is
\* a declared node ID in every reachable state, so the lookup of the current node in
\* next_node, choose_path and run_actions never fails
C36_HistoryHoldsDeclaredNodes ==
    (Validated /\ NoFinding("nodes")) =>
        /\ \A i \in 1..Len(history) : history[i] \in DOMAIN opus.nodes
        /\ op.raised # "KeyError"

\* an accepted opus in which the operator went from the choice point a to b and on
C36_Witness ==
    /\ Validated
    /\ NoFinding("nodes")
    /\ opus.nodes["a"].next.kind = "list"
    /\ Len(history) >= 3
    /\ history[2] = "b"
    /\ op.method = "next_node"
    /\ history # pre

\* C33: a registry with asset sync disabled sends req_component_info and no
\* report_checksums on accepting a connection, and never sends a file message to a
\* connection, whatever the peer sends; a registry with sync enabled sends
\* req_component_info and then report_checksums, before any inbound message of the
\* connection is processed
C33_SyncSwitchGovernsTransfers ==
    /\ (peer_op.step = "accept" /\ peer_op.raised = "none") =>
           peer_sent = IF sync_assets
                       THEN <<Out(peer_op.conn, ReqComponentInfo),
                              Out(peer_op.conn, ReportChecksums)>>
                       ELSE <<Out(peer_op.conn, ReqComponentInfo)>>
    /\ ~sync_assets => FilesSent = {}

\* the component IDs for which a list of achievements is held
HeldFor == {id \in DOMAIN active_achievement_requests :
               id # NoId /\ active_achievement_requests[id] # <<>>}

\* no list holds two entries of one name
NoDuplicateNames ==
    \A id \in DOMAIN active_achievement_requests :
        LET held == active_achievement_requests[id]
        IN \A i, j \in 1..Len(held) : held[i].name = held[j].name => i = j

\* C35: achievement notifications are de-duplicated by name per component: the
\* achievementsReached list held for a component never contains two entries with
\* the same name, and after that component's connection terminates the list is
\* dropped, so a peer that reconnects under the same component ID starts from an
\* empty list: a list is held for a component only while some connection is live
C35_AchievementsDedupedAndDropped ==
    /\ NoDuplicateNames
    /\ HeldFor # {} => LiveConns # {}

\* C39: once a connection of a UI has ended, in order or abruptly, it is no longer
\* in the list of connections the UI broadcasts to
C39_EndedUIConnectionIsRemoved ==
    \A i \in DOMAIN ui_websockets : client[ui_websockets[i]] # "closed"

OrderlyCloseSeen ==
    /\ core_op.name = "ui.closed"
    /\ core_op.raised = "none"
    /\ ui_websockets # <<>>

\* the inline definitions of an opus file, each with the place it is written at
InlineDefinitions ==
    {<<i, 0, j>> : i \in {i \in DOMAIN load_in.actions_dict :
                             ~load_in.actions_dict[i].data.composite},
                   j \in 1..2}
        \cup {<<i, s, j>> : i \in {i \in DOMAIN load_in.actions_dict :
                                      load_in.actions_dict[i].data.composite},
                            s \in 1..2, j \in 1..2}

\* the assets list written at a place of the file, and the one compiled from it
WrittenAt(i, s) ==
    LET data == load_in.actions_dict[i].data
    IN IF s = 0 THEN data.assets
       ELSE IF s <= Len(data.subactions) THEN data.subactions[s].assets ELSE <<>>
CompiledAt(i, s) ==
    LET action == load_out.actions[load_in.actions_dict[i].key]
    IN IF s = 0 THEN action.assets
       ELSE IF s <= Len(action.subactions) THEN action.subactions[s].assets ELSE <<>>

IsInline(d) == d[3] <= Len(WrittenAt(d[1], d[2])) /\ WrittenAt(d[1], d[2])[d[3]].inline

\* C34: every inline asset definition is lifted into the asset table under an ID
\* of its own: each entry of every compiled assets list is an ID of the table, the
\* entry of an inline definition names an asset with the definition's path, no two
\* inline definitions share an ID, and none takes the ID of a declared asset
C34_InlineAssetsGetTheirOwnIds ==
    load_out.done =>
        /\ \A i \in DOMAIN load_in.actions_dict, s \in 0..2 :
              \A j \in DOMAIN CompiledAt(i, s) : CompiledAt(i, s)[j] \in DOMAIN load_out.assets
        /\ \A d \in InlineDefinitions : IsInline(d) =>
              /\ load_out.assets[CompiledAt(d[1], d[2])[d[3]]] = WrittenAt(d[1], d[2])[d[3]].path
              /\ CompiledAt(d[1], d[2])[d[3]] \notin DOMAIN load_in.declared
              /\ \A e \in InlineDefinitions :
                    (IsInline(e) /\ e # d) =>
                        CompiledAt(e[1], e[2])[e[3]] # CompiledAt(d[1], d[2])[d[3]]

\* the paths a storage's list holds, in the order they were chosen
ChosenPaths(storage_id) ==
    [i \in DOMAIN storages_random_cmds[storage_id] |-> storages_random_cmds[storage_id][i].path]

\* C40: every create_random action with a non-empty asset list sends one create
\* command whose asset is the path of one of its assets, and no asset of a storage is
\* chosen a second time before all of them have been chosen once
C40_RandomPoolWithoutRepeats ==
    (load_in.function = "MediaPeer.handle_action" /\ load_out.done) =>
        /\ Len(load_out.sent) = 1
        /\ load_out.sent[1]["command"] = "create"
        /\ load_out.sent[1]["asset"] \in {PathEntry(load_in.assets[i].path) : i \in DOMAIN load_in.assets}
        /\ \A storage_id \in DOMAIN storages_random_cmds :
              \A i, j \in DOMAIN ChosenPaths(storage_id) :
                  i # j => ChosenPaths(storage_id)[i] # ChosenPaths(storage_id)[j]

========================================================================
